---- MODULE Spec2Model ----
(***************************************************************************)
(* Orchestration and supervision engine of local-devops-mcp:               *)
(* dependency resolver, readiness prober, group deployment, snapshot       *)
(* restore and health supervisor, modelled as state machines.              *)
(***************************************************************************)
EXTENDS Integers, Sequences, FiniteSets, TLC

(* ------------------------------------------------------------------ *)
(* Bounds                                                              *)
(* ------------------------------------------------------------------ *)
MaxBatch == 3

\* largest timeout argument given to wait_for_condition
MaxTimeout == 4

\* most containers running before a snapshot is taken
MaxContainers == 2

\* most restore_env calls in one behaviour
MaxRestores == 1

\* most containers removed behind the snapshot manager's back
MaxRemovals == 1

\* most HealthCheck dicts created by add_health_check in one behaviour
MaxChecks == 2

\* most monitoring threads started in one behaviour
MaxThreads == 2

\* most restarts requested in one behaviour
MaxRestarts == 1

\* largest value of time.time() the health monitor reads
MaxHealthClock == 1

\* most snapshots created in one behaviour in which snapshots are deleted
MaxCreated == 3

\* most templates created in one behaviour
MaxTemplatesCreated == 2

\* most run_from_template calls that reach the deployment
MaxTemplateRuns == 1

\* calls of define_dependency
MaxDefined == 3

(* ------------------------------------------------------------------ *)
(* Values                                                              *)
(* ------------------------------------------------------------------ *)
\* Python None, and an absent dict key read through dict.get
None == "None"

\* service names a batch may use
Names == {"a", "b", "c"}

\* a name no definition of the batch carries (dangling reference)
Dangling == "zz"

\* values of a definition's depends_on field; "" is falsy like None
DepValues == Names \cup {None, "", Dangling}

VARIABLES
    services,          \* sort_services_by_dependencies: the argument
    remaining,         \* ... its local list `remaining`
    sorted_services,   \* ... its local list `sorted_services`
    deployed,          \* ... its local set `deployed`
    sort_pc,           \* "running" | "returned" | "raised"
    remaining_names,   \* names carried by the RuntimeError
    sort_passes        \* passes of the outer while loop made so far

sortVars == <<services, remaining, sorted_services, deployed, sort_pc,
              remaining_names, sort_passes>>

VARIABLES
    condition,         \* wait_for_condition: the argument `condition`
    timeout,           \* ... the argument `timeout`
    start_time,        \* ... its local `start_time`
    wait_pc,           \* "idle" | "test" | "probing" | "sleeping" |
                       \* "returned" | "raised"
    wait_result,       \* the boolean returned
    wait_exc,          \* the exception that left the call
    probe_began,       \* clock value at which the attempt in flight began
    sleep_until,       \* clock value at which time.sleep(2) ends
    clock,             \* time.time(), in seconds
    target_up,         \* the world: the condition holds at this moment
    attempt_log,       \* history: one record per completed attempt
    true_within        \* history: the condition held at some moment less
                       \* than `timeout` seconds after the call

waitVars == <<condition, timeout, start_time, wait_pc, wait_result, wait_exc,
              probe_began, sleep_until, clock, target_up, attempt_log,
              true_within>>

VARIABLES
    docker_api         \* what the names get_docker_client and
                       \* pull_image_if_needed are bound to where they are
                       \* called without await: "async" (the coroutine
                       \* functions of docker_client.py) or "sync" (plain
                       \* functions, as the tests patch them in)

VARIABLES
    definitions,       \* deploy_group: the argument (the caller's dicts)
    client,            \* ... its local `client`
    sorted_definitions,\* ... its local `sorted_definitions`
    deploy_idx,        \* ... position of the for loop in sorted_definitions
    deployed_containers, \* ... its local dict name -> short_id
    deploy_pc,         \* "idle" | "start" | "resolve" | "create" | "probe" |
                       \* "stop" | "remove" | "returned" | "raised"
    deploy_error,      \* the exception that left the call
    current_id,        \* id of the container of the service being deployed
    runtime_before,    \* history: `runtime` when the call began
    gateway_log        \* history: runtime operations and probes, in order

deployVars == <<definitions, client, sorted_definitions, deploy_idx,
                deployed_containers, deploy_pc, deploy_error, current_id,
                runtime_before, gateway_log>>

VARIABLES
    runtime,           \* the container runtime: list of containers
    next_id            \* number of the next container the runtime creates

runtimeVars == <<runtime, next_id>>

VARIABLES
    snapshots,         \* SnapshotManager._snapshots: name -> snapshot
    snap_time,         \* time.time() as snapshot_env reads it
    created_log,       \* history: the names snapshot_env stored, in order
    snap_pc,           \* snapshot_env: "idle" | "returned" | "raised"
    restore_pc,        \* restore_env: "idle" | "loop" | "returned" | "raised"
    restore_name,      \* ... the argument `snapshot_name`
    restore_idx,       \* ... position of the for loop in the records
    restored_containers, \* ... its local list
    failed_containers, \* ... its local list
    restore_error,     \* the exception that left the call
    attempted,         \* history: record names and outcomes, in order
    restores_made,     \* history: restore_env calls so far
    removals_made,     \* history: containers removed by the operator
    runtime_calls,     \* history: the runtime calls made by the latest
                       \* snapshot_env and by the latest restore_env
    snap_result        \* what the latest list_snapshots, get_snapshot or
                       \* compare_snapshots returned

snapVars == <<snapshots, snap_time, created_log, snap_pc, restore_pc, restore_name,
              restore_idx, restored_containers, failed_containers,
              restore_error, attempted, restores_made, removals_made,
              runtime_calls, snap_result>>

VARIABLES
    health_checks,     \* HealthMonitor._health_checks: container id -> the
                       \* dict stored for it
    checks_made,       \* the HealthCheck dicts created so far; the n-th
                       \* one has identity n
    monitoring_threads,\* HealthMonitor._monitoring_threads: id -> thread
    threads,           \* the threads ever started, in order; each one runs
                       \* _monitor_and_restart for its container id
    caller_pc,         \* the interactive caller: "idle" | "registering"
                       \* (inside enable_auto_restart, thread started, not
                       \* yet stored in _monitoring_threads) | "check_probe"
                       \* | "check_time" | "check_stamp" | "check_status" |
                       \* "check_return" (inside get_service_health)
    caller_cid,        \* ... the container id of the call in progress
    check,             \* ... the locals of get_service_health
    enable_result,     \* outcome of the last enable_auto_restart call
    check_result,      \* what the last get_service_health call returned
    health_clock,      \* the last value time.time() returned
    reachable,         \* the world: the endpoints that answer at this moment
    been_reachable,    \* history: the endpoints that answered at some moment
    restart_log        \* history: restarts requested, in order

healthVars == <<health_checks, checks_made, monitoring_threads, threads,
                caller_pc, caller_cid, check, enable_result, check_result,
                health_clock, reachable, been_reachable, restart_log>>

VARIABLES
    templates,         \* TemplateManager._templates: name -> template
    tmpl_time,         \* time.time() as create_template reads it
    tmpl_result,       \* what the latest TemplateManager call returned or
                       \* raised
    tmpl_deployed      \* history: the arguments of every _deploy_service
                       \* call, in order

templateVars == <<templates, tmpl_time, tmpl_result, tmpl_deployed>>

VARIABLES
    dependencies,      \* DependencyManager._dependencies: name -> definition
    dep_time,          \* time.time() as define_dependency reads it
    dep_result,        \* what the latest define_dependency or
                       \* get_dependency_status call returned
    defined_log        \* history: the define_dependency calls, in order

dependencyVars == <<dependencies, dep_time, dep_result, defined_log>>

VARIABLES
    tasks,             \* the waits in progress, blocking and non-blocking:
                       \* each one's position, elapsed time, attempts made
                       \* and outcome
    script             \* the world: what the i-th probe attempt of a wait
                       \* runs into

taskVars == <<tasks, script>>

vars == <<sortVars, waitVars, docker_api, deployVars, runtimeVars, snapVars,
          healthVars, templateVars, dependencyVars, taskVars>>

\* what a step of each component leaves alone
othersOfSort == <<waitVars, docker_api, deployVars, runtimeVars, snapVars,
                  healthVars,
                  templateVars, dependencyVars, taskVars>>

othersOfWait == <<sortVars, docker_api, deployVars, runtimeVars, snapVars,
                  healthVars,
                  templateVars, dependencyVars, taskVars>>

othersOfDeploy == <<sortVars, waitVars, docker_api, snapVars, healthVars,
                  templateVars, dependencyVars, taskVars>>

othersOfSnap == <<sortVars, waitVars, docker_api, deployVars, healthVars,
                  templateVars, dependencyVars, taskVars>>

othersOfTemplate == <<sortVars, waitVars, docker_api, deployVars, snapVars,
                      healthVars,
                     dependencyVars, taskVars>>

othersOfHealth == <<sortVars, waitVars, docker_api, deployVars, runtimeVars,
                    snapVars,
                  templateVars, dependencyVars, taskVars>>

(* ------------------------------------------------------------------ *)
(* Sequence helpers                                                    *)
(* ------------------------------------------------------------------ *)
Range(s) == {s[i] : i \in 1..Len(s)}

\* the element stays in the list
RemoveAt_Keeps(s, i) == s

\* list.pop(i): the list without its i-th element
RemoveAt(s, i) == [j \in 1..(Len(s) - 1) |-> IF j < i THEN s[j] ELSE s[j + 1]]

\* sequences over S of length n without repeated elements
RECURSIVE DistinctSeqs(_, _)
DistinctSeqs(S, n) ==
    IF n = 0 THEN {<<>>}
    ELSE UNION {{Append(s, x) : x \in S \ Range(s)} : s \in DistinctSeqs(S, n - 1)}

(* ------------------------------------------------------------------ *)
(* Dependency resolver (src/src/dependencies.py)                       *)
(* ------------------------------------------------------------------ *)
\* the membership test dropped: only a self-reference blocks a definition
CanDeploy_SelfOnly(service, dep) ==
    \/ service.depends_on = None
    \/ service.depends_on = ""
    \/ service.depends_on # service.name

\* `not deps or deps in deployed`
CanDeploy(service, dep) ==
    \/ service.depends_on = None
    \/ service.depends_on = ""
    \/ service.depends_on \in dep

\* the scan keeps the last deployable definition instead of breaking at
\* the first
FirstDeployable_Last(rem, dep) ==
    IF \E i \in 1..Len(rem) : CanDeploy(rem[i], dep)
    THEN CHOOSE i \in 1..Len(rem) :
            /\ CanDeploy(rem[i], dep)
            /\ \A j \in (i + 1)..Len(rem) : ~CanDeploy(rem[j], dep)
    ELSE 0

\* the index at which the for loop breaks, 0 when it runs into its else
FirstDeployable(rem, dep) ==
    IF \E i \in 1..Len(rem) : CanDeploy(rem[i], dep)
    THEN CHOOSE i \in 1..Len(rem) :
            /\ CanDeploy(rem[i], dep)
            /\ \A j \in 1..(i - 1) : ~CanDeploy(rem[j], dep)
    ELSE 0

\* the error built from the whole argument instead of the remaining list
NamesOf_Services(rem) == [i \in 1..Len(services) |-> services[i].name]

\* [s['name'] for s in remaining]
NamesOf(rem) == [i \in 1..Len(rem) |-> rem[i].name]

\* one pass of `while remaining:`
SortPass ==
    /\ sort_pc = "running"
    /\ remaining # <<>>
    /\ LET i == FirstDeployable(remaining, deployed) IN
        IF i # 0
        THEN /\ sorted_services' = Append(sorted_services, remaining[i])
             /\ remaining' = RemoveAt(remaining, i)
             /\ deployed' = deployed \cup {remaining[i].name}
             /\ UNCHANGED <<sort_pc, remaining_names>>
        ELSE /\ sort_pc' = "raised"
             /\ remaining_names' = NamesOf(remaining)
             /\ UNCHANGED <<sorted_services, remaining, deployed>>
    /\ sort_passes' = sort_passes + 1
    /\ UNCHANGED <<services, othersOfSort>>

\* `while remaining:` is false: return sorted_services
SortReturn ==
    /\ sort_pc = "running"
    /\ remaining = <<>>
    /\ sort_pc' = "returned"
    /\ UNCHANGED <<services, remaining, sorted_services, deployed,
                   remaining_names, sort_passes, othersOfSort>>

\* a service definition as the resolver reads it
SortDef(n, d) == [name |-> n, depends_on |-> d]

\* batches of at most MaxBatch definitions with pairwise distinct names
SortBatches ==
    UNION {UNION {{[i \in 1..k |-> SortDef(ns[i], ds[i])] :
                        ds \in [1..k -> DepValues]} :
                  ns \in DistinctSeqs(Names, k)} :
           k \in 0..MaxBatch}

\* no resolver call in progress
SortIdle ==
    /\ services = <<>>
    /\ remaining = <<>>
    /\ sorted_services = <<>>
    /\ deployed = {}
    /\ sort_pc = "idle"
    /\ remaining_names = <<>>
    /\ sort_passes = 0

\* no wait_for_condition call in progress
WaitIdle ==
    /\ condition = None
    /\ timeout = 0
    /\ start_time = 0
    /\ wait_pc = "idle"
    /\ wait_result = None
    /\ wait_exc = None
    /\ probe_began = 0
    /\ sleep_until = 0
    /\ clock = 0
    /\ target_up = FALSE
    /\ attempt_log = <<>>
    /\ true_within = FALSE

\* no deploy_group call in progress, nothing running
DeployIdle ==
    /\ definitions = <<>>
    /\ client = None
    /\ sorted_definitions = <<>>
    /\ deploy_idx = 0
    /\ deployed_containers = <<>>
    /\ deploy_pc = "idle"
    /\ deploy_error = None
    /\ current_id = None
    /\ runtime_before = <<>>
    /\ gateway_log = <<>>

\* nothing runs
RuntimeEmpty ==
    /\ runtime = <<>>
    /\ next_id = 1

\* nothing returned by a TemplateManager call yet
NoTemplateResult == [call |-> "none"]

\* no wait runs as a task
TaskIdle ==
    /\ tasks = <<>>
    /\ script = <<>>

\* nothing returned by a DependencyManager call yet
NoDependencyResult == [call |-> "none"]

\* no dependency is defined
DependencyIdle ==
    /\ dependencies = <<>>
    /\ dep_time = 0
    /\ dep_result = NoDependencyResult
    /\ defined_log = <<>>

\* no template stored, no TemplateManager call made
TemplateIdle ==
    /\ templates = <<>>
    /\ tmpl_time = 0
    /\ tmpl_result = NoTemplateResult
    /\ tmpl_deployed = <<>>

\* no runtime call made by snapshot_env or restore_env
NoCalls == [snapshot_env |-> <<>>, restore_env |-> <<>>]

\* nothing returned by a reading call yet
NoSnapResult == [call |-> "none"]

\* no snapshot stored, no snapshot or restore call made
SnapIdle ==
    /\ snapshots = <<>>
    /\ snap_time = 0
    /\ created_log = <<>>
    /\ snap_pc = "idle"
    /\ restore_pc = "idle"
    /\ restore_name = None
    /\ restore_idx = 0
    /\ restored_containers = <<>>
    /\ failed_containers = <<>>
    /\ restore_error = None
    /\ attempted = <<>>
    /\ restores_made = 0
    /\ removals_made = 0
    /\ runtime_calls = NoCalls
    /\ snap_result = NoSnapResult

\* no endpoint read yet
NoEndpoint == [scheme |-> "", address |-> ""]

\* the locals of get_service_health outside a call
CheckIdle ==
    [health_info |-> 0, endpoint |-> NoEndpoint, is_healthy |-> FALSE,
     now |-> 0]

\* no get_service_health call has returned
NoResult == [status |-> None, endpoint |-> NoEndpoint]

\* no health check stored, no thread started
HealthIdle ==
    /\ health_checks = <<>>
    /\ checks_made = 0
    /\ monitoring_threads = <<>>
    /\ threads = <<>>
    /\ caller_pc = "idle"
    /\ caller_cid = None
    /\ check = CheckIdle
    /\ enable_result = None
    /\ check_result = NoResult
    /\ health_clock = 0
    /\ reachable = {}
    /\ been_reachable = {}
    /\ restart_log = <<>>

SortInit ==
    /\ HealthIdle
    /\ WaitIdle
    /\ DeployIdle
    /\ RuntimeEmpty
    /\ SnapIdle
    /\ TemplateIdle
    /\ DependencyIdle
    /\ TaskIdle
    /\ docker_api = "async"
    /\ services \in SortBatches
    /\ remaining = services
    /\ sorted_services = <<>>
    /\ deployed = {}
    /\ sort_pc = "running"
    /\ remaining_names = <<>>
    /\ sort_passes = 0

SortNext == SortPass \/ SortReturn

SpecSort == SortInit /\ [][SortNext]_vars

\* the call runs on: the thread that called the resolver is scheduled
\* until the function returns or raises
SpecSortLive == SortInit /\ [][SortNext]_vars /\ WF_vars(SortNext)

\* a depends_on field that holds a list of names; an absent field and a
\* single name are lists of "absent" and "str" kind
DepField(k, v) == [kind |-> k, items |-> v]

\* the fields callers give: absent, one name, and lists of zero, one and
\* two names
DepFields ==
    {DepField("absent", <<>>)}
    \cup {DepField("str", <<n>>) : n \in Names}
    \cup {DepField("list", l) : l \in {<<>>, <<"a">>, <<"a", "b">>}}

\* `not deps`: None and the empty list are falsy
Falsy(deps) ==
    deps.kind = "absent" \/ (deps.kind = "list" /\ deps.items = <<>>)

\* `deps in deployed`: the set hashes deps, and a list has no hash
InDeployed(deps, dep) ==
    IF deps.kind = "list" THEN "TypeError"
    ELSE IF deps.items[1] \in dep THEN "True" ELSE "False"

\* `not deps or deps in deployed`
CanDeployList(service, dep) ==
    IF Falsy(service.depends_on) THEN "True"
    ELSE InDeployed(service.depends_on, dep)

\* the index at which the for loop stops, by a break or by the exception
\* of the test, 0 when it runs into its else
FirstDecided(rem, dep) ==
    IF \E i \in 1..Len(rem) : CanDeployList(rem[i], dep) # "False"
    THEN CHOOSE i \in 1..Len(rem) :
            /\ CanDeployList(rem[i], dep) # "False"
            /\ \A j \in 1..(i - 1) : CanDeployList(rem[j], dep) = "False"
    ELSE 0

\* one pass of `while remaining:` over definitions with list fields
SortListPass ==
    /\ sort_pc = "running"
    /\ remaining # <<>>
    /\ LET i == FirstDecided(remaining, deployed) IN
        IF i = 0
        THEN /\ sort_pc' = "raised"
             /\ remaining_names' = NamesOf(remaining)
             /\ UNCHANGED <<sorted_services, remaining, deployed>>
        ELSE IF CanDeployList(remaining[i], deployed) = "TypeError"
        THEN /\ sort_pc' = "type_error"
             /\ UNCHANGED <<sorted_services, remaining, deployed,
                            remaining_names>>
        ELSE /\ sorted_services' = Append(sorted_services, remaining[i])
             /\ remaining' = RemoveAt(remaining, i)
             /\ deployed' = deployed \cup {remaining[i].name}
             /\ UNCHANGED <<sort_pc, remaining_names>>
    /\ sort_passes' = sort_passes + 1
    /\ UNCHANGED <<services, othersOfSort>>

\* batches of at most MaxBatch definitions with pairwise distinct names
\* and list fields
ListBatches ==
    UNION {UNION {{[i \in 1..k |-> SortDef(ns[i], ds[i])] :
                        ds \in [1..k -> DepFields]} :
                  ns \in DistinctSeqs(Names, k)} :
           k \in 0..MaxBatch}

SortListInit ==
    /\ HealthIdle
    /\ WaitIdle
    /\ DeployIdle
    /\ RuntimeEmpty
    /\ SnapIdle
    /\ TemplateIdle
    /\ DependencyIdle
    /\ TaskIdle
    /\ docker_api = "async"
    /\ services \in ListBatches
    /\ remaining = services
    /\ sorted_services = <<>>
    /\ deployed = {}
    /\ sort_pc = "running"
    /\ remaining_names = <<>>
    /\ sort_passes = 0

SortListNext == SortListPass \/ SortReturn

SpecSortList == SortListInit /\ [][SortListNext]_vars

(* ------------------------------------------------------------------ *)
(* Readiness prober (src/src/dependencies.py)                          *)
(* ------------------------------------------------------------------ *)
\* time.sleep(2)
SleepSeconds == 2

\* sock.settimeout(3)
TcpConnectTimeout == 3

\* urlopen(req, timeout=5)
HttpTimeout == 5

\* condition dictionaries, every field read through condition.get
Cond(t, h, p, u, pat, cid) ==
    [type |-> t, host |-> h, port |-> p, url |-> u, pattern |-> pat,
     container_id |-> cid]

TcpCond == Cond("tcp", "db", 5432, None, None, None)

HttpCond == Cond("http", None, None, "http://api:8080/health", None, None)

LogCond == Cond("log", None, None, None, "ready", "abc123")

\* a type none of the three branches handles: no check, only the sleep
OtherCond == Cond("exec", None, None, None, None, None)

WellFormedConds == {TcpCond, HttpCond, LogCond}

\* stands for a definition without the key "wait_condition"
NoCond == Cond(None, None, None, None, None, None)

\* the two bindings of the docker_client helpers
DockerApis == {"async", "sync"}

\* `get_docker_client()` without await: the async def evaluates to a
\* coroutine object and runs none of its body; a plain function returns a
\* connected client
get_docker_client(api) == IF api = "async" THEN "coroutine" ELSE "client"

\* docker_client.get_docker_client_sync returns a connected client
get_docker_client_sync == "client"

\* attribute access `client.containers` / `client.images`
HasClientAttrs(cl) == cl = "client"

\* what one TCP attempt can run into: connect_ex returns 0, returns an
\* error number, or the socket call raises OSError
TcpEvents(up) == IF up THEN {"connected"} ELSE {"refused", "OSError"}

\* what one HTTP attempt can run into: a response below 400, or urlopen
\* raising HTTPError, URLError or OSError
HttpEvents(up) ==
    IF up THEN {"status_ok"} ELSE {"HTTPError", "URLError", "OSError"}

\* what one log attempt can run into with the client it was given
LogEvents(cl, up) ==
    IF ~HasClientAttrs(cl) THEN {"AttributeError"}
    ELSE IF up THEN {"matched"}
    ELSE {"no_match", "DockerException", "OSError", "re.error"}

\* the exception classes each check's except clause names
Caught(type) ==
    CASE type = "tcp" -> {"OSError"}
      [] type = "http" -> {"URLError", "HTTPError", "OSError"}
      [] type = "log" -> {"DockerException", "OSError", "re.error"}

Succeeds(ev) == ev \in {"connected", "status_ok", "matched"}

Fails(ev) == ev \in {"refused", "no_match"}

\* _check_tcp_port / _check_http_endpoint / _check_log_pattern:
\* "True", "False", or the exception class that escapes the check
CheckResult(type, ev) ==
    IF Succeeds(ev) THEN "True"
    ELSE IF Fails(ev) \/ ev \in Caught(type) THEN "False"
    ELSE ev

\* `condition.get(field)` gives None: the condition has no such key, or
\* holds None under it (a port, when given, is a number)
Absent(cond, field) ==
    \/ field \notin DOMAIN cond
    \/ field # "port" /\ cond[field] = None

\* what one attempt runs into when a required field is None:
\* connect_ex((None, port)) and connect_ex((host, None)) raise TypeError;
\* Request(None) raises ValueError; containers.get(None) raises
\* NullResource, a DockerException; re.search(None, logs) raises
\* TypeError once the logs were fetched
NoneFieldEvents(cond, cl) ==
    CASE cond.type = "tcp" -> {"TypeError"}
      [] cond.type = "http" -> {"ValueError"}
      [] cond.type = "log" ->
            IF ~HasClientAttrs(cl) THEN {"AttributeError"}
            ELSE IF Absent(cond, "container_id") THEN {"DockerException"}
            ELSE {"TypeError", "DockerException", "OSError"}

\* the fields each check reads from the condition
RequiredFields(type) ==
    CASE type = "tcp" -> {"host", "port"}
      [] type = "http" -> {"url"}
      [] type = "log" -> {"pattern", "container_id"}

\* events of one attempt of the blocking wait
AttemptEvents(cond, up) ==
    IF \E f \in RequiredFields(cond.type) : Absent(cond, f)
    THEN NoneFieldEvents(cond, get_docker_client(docker_api))
    ELSE CASE cond.type = "tcp" -> TcpEvents(up)
           [] cond.type = "http" -> HttpEvents(up)
           [] cond.type = "log" -> LogEvents(get_docker_client(docker_api), up)

\* longest time one attempt can take
AttemptTimeout(type) ==
    CASE type = "tcp" -> TcpConnectTimeout
      [] type = "http" -> HttpTimeout
      [] OTHER -> 0

\* the loop guard tested one second too far
BudgetLeft_Inclusive(now, start, limit) == now - start <= limit

\* `time.time() - start_time < timeout`
BudgetLeft(now, start, limit) == now - start < limit

\* the while test: enter the body and start an attempt, or return False
WaitLoopTest ==
    /\ wait_pc = "test"
    /\ IF BudgetLeft(clock, start_time, timeout)
       THEN IF condition.type \in {"tcp", "http", "log"}
            THEN /\ wait_pc' = "probing"
                 /\ probe_began' = clock
                 /\ UNCHANGED <<sleep_until, wait_result>>
            ELSE /\ wait_pc' = "sleeping"
                 /\ sleep_until' = clock + SleepSeconds
                 /\ UNCHANGED <<probe_began, wait_result>>
       ELSE /\ wait_pc' = "returned"
            /\ wait_result' = FALSE
            /\ UNCHANGED <<probe_began, sleep_until>>
    /\ UNCHANGED <<condition, timeout, start_time, wait_exc, clock, target_up,
                   attempt_log, true_within, othersOfWait>>

\* the attempt in flight completes: return True, go to sleep, or raise
WaitAttemptEnd ==
    /\ wait_pc = "probing"
    /\ \E ev \in AttemptEvents(condition, target_up) :
        LET r == CheckResult(condition.type, ev) IN
        /\ attempt_log' = Append(attempt_log,
                                 [began |-> probe_began, ended |-> clock,
                                  held |-> target_up, observed |-> r = "True"])
        /\ CASE r = "True" ->
                  /\ wait_pc' = "returned"
                  /\ wait_result' = TRUE
                  /\ UNCHANGED <<sleep_until, wait_exc>>
             [] r = "False" ->
                  /\ wait_pc' = "sleeping"
                  /\ sleep_until' = clock + SleepSeconds
                  /\ UNCHANGED <<wait_result, wait_exc>>
             [] OTHER ->
                  /\ wait_pc' = "raised"
                  /\ wait_exc' = r
                  /\ UNCHANGED <<wait_result, sleep_until>>
    /\ UNCHANGED <<condition, timeout, start_time, probe_began, clock,
                   target_up, true_within, othersOfWait>>

\* time.sleep(2) returns
WaitSleepEnd ==
    /\ wait_pc = "sleeping"
    /\ clock = sleep_until
    /\ wait_pc' = "test"
    /\ UNCHANGED <<condition, timeout, start_time, wait_result, wait_exc,
                   probe_began, sleep_until, clock, target_up, attempt_log,
                   true_within, othersOfWait>>

\* one second passes while an attempt is in flight or the caller sleeps;
\* the probed service may come up or go down
WaitTick ==
    /\ \/ wait_pc = "probing"
          /\ clock - probe_began < AttemptTimeout(condition.type)
       \/ wait_pc = "sleeping" /\ clock < sleep_until
    /\ clock' = clock + 1
    /\ target_up' \in BOOLEAN
    /\ true_within' =
          (true_within \/ (target_up' /\ clock' - start_time < timeout))
    /\ UNCHANGED <<condition, timeout, start_time, wait_pc, wait_result,
                   wait_exc, probe_began, sleep_until, attempt_log,
                   othersOfWait>>

WaitInit ==
    /\ HealthIdle
    /\ SortIdle
    /\ DeployIdle
    /\ RuntimeEmpty
    /\ SnapIdle
    /\ TemplateIdle
    /\ DependencyIdle
    /\ TaskIdle
    /\ docker_api \in DockerApis
    /\ condition \in WellFormedConds \cup {OtherCond}
    /\ timeout \in 0..MaxTimeout
    /\ start_time = 0
    /\ wait_pc = "test"
    /\ wait_result = None
    /\ wait_exc = None
    /\ probe_began = 0
    /\ sleep_until = 0
    /\ clock = 0
    /\ target_up \in BOOLEAN
    /\ attempt_log = <<>>
    /\ true_within = (target_up /\ 0 < timeout)

WaitNext == WaitLoopTest \/ WaitAttemptEnd \/ WaitSleepEnd \/ WaitTick

SpecWait == WaitInit /\ [][WaitNext]_vars

\* conditions that lack a field their type requires
MalformedConds ==
    {[type |-> "tcp", port |-> 5432],
     [type |-> "tcp", host |-> "db"],
     [type |-> "http"],
     [type |-> "log", container_id |-> "abc123"],
     [type |-> "log", pattern |-> "ready"]}

\* wait_for_condition is called with a malformed condition
MalformedInit ==
    /\ HealthIdle
    /\ SortIdle
    /\ DeployIdle
    /\ RuntimeEmpty
    /\ SnapIdle
    /\ TemplateIdle
    /\ DependencyIdle
    /\ TaskIdle
    /\ docker_api \in DockerApis
    /\ condition \in MalformedConds
    /\ timeout \in 0..MaxTimeout
    /\ start_time = 0
    /\ wait_pc = "test"
    /\ wait_result = None
    /\ wait_exc = None
    /\ probe_began = 0
    /\ sleep_until = 0
    /\ clock = 0
    /\ target_up \in BOOLEAN
    /\ attempt_log = <<>>
    /\ true_within = (target_up /\ 0 < timeout)

SpecMalformed == MalformedInit /\ [][WaitNext]_vars

\* the most attempts a wait makes when every attempt is followed by the
\* delay
ScriptLen == (MaxTimeout + 1) \div SleepSeconds

\* what an attempt of either wait can run into with a working client,
\* whether the probed service is up or not
WorldEvents(type) ==
    CASE type = "tcp" -> TcpEvents(TRUE) \cup TcpEvents(FALSE)
      [] type = "http" -> HttpEvents(TRUE) \cup HttpEvents(FALSE)
      [] type = "log" -> LogEvents("client", TRUE) \cup LogEvents("client", FALSE)

\* `await x`: a coroutine gives its result, any other object raises
Await(x) == IF x = "coroutine" THEN "client" ELSE "TypeError"

\* the client each log check works with: _check_log_pattern calls
\* get_docker_client() without await, check_logs awaits it
ClientOf(kind) ==
    IF kind = "blocking" THEN get_docker_client(docker_api)
    ELSE Await(get_docker_client(docker_api))

\* the outcome of one check of either wait: "True", "False", or the
\* exception class that escapes it
TaskCheck(kind, type, ev) ==
    IF type = "log" /\ ClientOf(kind) = "TypeError" THEN "TypeError"
    ELSE IF type = "log" /\ ~HasClientAttrs(ClientOf(kind)) THEN "AttributeError"
    ELSE CheckResult(type, ev)

\* a wait that was just called
Task(k) == [kind |-> k, pc |-> "test", now |-> 0, attempts |-> 0,
            result |-> None]

\* the while test of wait t
TaskTest(t) ==
    /\ tasks[t].pc = "test"
    /\ tasks' = [tasks EXCEPT ![t] =
          IF BudgetLeft(@.now, 0, timeout)
          THEN [@ EXCEPT !.pc = IF condition.type \in {"tcp", "http", "log"}
                                THEN "probing" ELSE "sleeping"]
          ELSE [@ EXCEPT !.pc = "returned", !.result = "False"]]
    /\ UNCHANGED <<script, sortVars, waitVars, docker_api, deployVars,
                   runtimeVars, snapVars, healthVars, templateVars,
                   dependencyVars>>

\* the attempt of wait t completes
TaskAttempt(t) ==
    /\ tasks[t].pc = "probing"
    /\ LET e == script[tasks[t].attempts + 1]
           r == TaskCheck(tasks[t].kind, condition.type, e.event) IN
        tasks' = [tasks EXCEPT ![t] =
            [@ EXCEPT !.attempts = @ + 1,
                      !.now = @ + e.took,
                      !.pc = IF r = "True" THEN "returned"
                             ELSE IF r = "False" THEN "sleeping" ELSE "raised",
                      !.result = IF r = "False" THEN None ELSE r]]
    /\ UNCHANGED <<script, sortVars, waitVars, docker_api, deployVars,
                   runtimeVars, snapVars, healthVars, templateVars,
                   dependencyVars>>

\* time.sleep(2) or `await asyncio.sleep(2)` of wait t returns
TaskSleep(t) ==
    /\ tasks[t].pc = "sleeping"
    /\ tasks' = [tasks EXCEPT ![t] =
                    [@ EXCEPT !.pc = "test", !.now = @ + SleepSeconds]]
    /\ UNCHANGED <<script, sortVars, waitVars, docker_api, deployVars,
                   runtimeVars, snapVars, healthVars, templateVars,
                   dependencyVars>>

\* wait_for_condition and wait_for_condition_async are called with the
\* same condition and timeout and meet the same probe outcomes
TaskInit ==
    /\ HealthIdle
    /\ SortIdle
    /\ DeployIdle
    /\ RuntimeEmpty
    /\ SnapIdle
    /\ TemplateIdle
    /\ DependencyIdle
    /\ docker_api \in DockerApis
    /\ condition \in WellFormedConds
    /\ timeout \in 0..MaxTimeout
    /\ start_time = 0
    /\ wait_pc = "idle"
    /\ wait_result = None
    /\ wait_exc = None
    /\ probe_began = 0
    /\ sleep_until = 0
    /\ clock = 0
    /\ target_up = FALSE
    /\ attempt_log = <<>>
    /\ true_within = FALSE
    /\ tasks = <<Task("blocking"), Task("async")>>
    /\ script \in [1..ScriptLen ->
                     [event : WorldEvents(condition.type), took : 0..1]]

TaskNext ==
    \/ \E t \in 1..2 : TaskTest(t)
    \/ \E t \in 1..2 : TaskAttempt(t)
    \/ \E t \in 1..2 : TaskSleep(t)

SpecTask == TaskInit /\ [][TaskNext]_vars

(* ------------------------------------------------------------------ *)
(* Group deployment (src/server.py, deploy_group)                      *)
(* ------------------------------------------------------------------ *)
\* the dead end answered with the partial order instead of the error
RECURSIVE SortRun_ReturnsPartial(_, _, _)
SortRun_ReturnsPartial(rem, out, dep) ==
    IF rem = <<>> THEN [raised |-> FALSE, value |-> out]
    ELSE LET i == FirstDeployable(rem, dep) IN
         IF i = 0 THEN [raised |-> FALSE, value |-> out]
         ELSE SortRun_ReturnsPartial(RemoveAt(rem, i), Append(out, rem[i]),
                                     dep \cup {rem[i].name})

\* the resolver's while loop run to its end: the sorted list, or the
\* names of the RuntimeError
RECURSIVE SortRun(_, _, _)
SortRun(rem, out, dep) ==
    IF rem = <<>> THEN [raised |-> FALSE, value |-> out]
    ELSE LET i == FirstDeployable(rem, dep) IN
         IF i = 0 THEN [raised |-> TRUE, value |-> NamesOf(rem)]
         ELSE SortRun(RemoveAt(rem, i), Append(out, rem[i]),
                      dep \cup {rem[i].name})

sort_services_by_dependencies(svcs) == SortRun(svcs, <<>>, {})

\* names of the services of a deploy_group batch
GroupNames == {"db", "api"}

\* image references: a registry name, and one holding "/" or "."
Images == {"redis", "./app"}

\* `"/" in image or "." in image`
IsLocalPath(image) == image = "./app"

\* f"{name}:latest"
LatestTag(n) == CASE n = "db" -> "db:latest" [] n = "api" -> "api:latest"

\* the image reference given to containers.run
ResolvedImage(def) ==
    IF IsLocalPath(def.image) THEN LatestTag(def.name) ELSE def.image

\* a running container as the runtime reports it: short id, name, first
\* image tag ("none" when untagged), and NetworkSettings.Ports ("map" for
\* a dictionary, "null" when the runtime reports none)
Container(i, n, img, p) ==
    [id |-> i, name |-> n, image |-> img, ports |-> p, status |-> "running"]

\* a service definition
GroupDef(n, img, d, w) ==
    [name |-> n, image |-> img, depends_on |-> d, wait_condition |-> w]

GroupDefsOf(n) ==
    {GroupDef(n, img, d, w) :
        img \in Images,
        d \in GroupNames \cup {None, Dangling},
        w \in WellFormedConds \cup {NoCond}}

\* batches with pairwise distinct names
DeployBatches ==
    UNION {UNION {{b \in [1..k -> UNION {GroupDefsOf(n) : n \in GroupNames}] :
                        \A i \in 1..k : b[i].name = ns[i]} :
                  ns \in DistinctSeqs(GroupNames, k)} :
           k \in 0..MaxBatch}

\* del d[key]
Drop(d, key) == [x \in (DOMAIN d) \ {key} |-> d[x]]

\* dict.get(key)
Get(d, key) == IF key \in DOMAIN d THEN d[key] ELSE None

\* dict[key] = value
Put(d, key, value) ==
    [x \in DOMAIN d \cup {key} |-> IF x = key THEN value ELSE d[x]]

\* container.short_id of the n-th container the runtime creates
ShortId(n) ==
    <<"c1", "c2", "c3", "c4", "c5", "c6", "c7", "c8", "c9", "c10", "c11",
      "c12">>[n]

LogEntry(o, n) == [op |-> o, name |-> n]

\* the results wait_for_condition(cond, timeout=60) can end with: "True",
\* "False" (every attempt failed until the timeout), or the exception
\* class that escapes an attempt
WaitOutcomes(cond) ==
    IF cond.type \in {"tcp", "http", "log"}
    THEN {CheckResult(cond.type, ev) :
            ev \in AttemptEvents(cond, TRUE) \cup AttemptEvents(cond, FALSE)}
    ELSE {"False"}

\* the condition handed to the prober: TCP host and log container id are
\* overwritten in the definition's own dictionary
Substituted(def, dc) ==
    LET w == def.wait_condition IN
    IF w.type = "tcp" THEN [w EXCEPT !.host = def.depends_on]
    ELSE IF w.type = "log"
         THEN [w EXCEPT !.container_id = Get(dc, def.depends_on)]
         ELSE w

\* the list with the wait_condition of the definition named n replaced
WithCondition(defs, n, w) ==
    [i \in 1..Len(defs) |->
        IF defs[i].name = n THEN [defs[i] EXCEPT !.wait_condition = w]
        ELSE defs[i]]

\* container.stop()
StopContainer(rt, id) ==
    [i \in 1..Len(rt) |->
        IF rt[i].id = id THEN [rt[i] EXCEPT !.status = "exited"] ELSE rt[i]]

\* a rollback that also removes what the call created before
RemoveContainer_Rollback(rt, id) == SelectSeq(rt, LAMBDA c : c.id = "c0")

\* container.remove()
RemoveContainer(rt, id) == SelectSeq(rt, LAMBDA c : c.id # id)

\* the wait skipped although a condition is attached
AfterCreate_NoWait(def) == "next"

\* `if "wait_condition" in service_def:`
AfterCreate(def) == IF def.wait_condition # NoCond THEN "probe" ELSE "next"

CurrentDef == sorted_definitions[deploy_idx]

\* the for loop takes the next definition, or the function returns
DeployAdvance ==
    IF deploy_idx < Len(sorted_definitions)
    THEN /\ deploy_idx' = deploy_idx + 1
         /\ deploy_pc' = "resolve"
    ELSE /\ deploy_idx' = deploy_idx
         /\ deploy_pc' = "returned"

\* an exception leaves deploy_group
DeployRaise(exc) ==
    /\ deploy_pc' = "raised"
    /\ deploy_error' = exc

\* client = get_docker_client(); sorted_definitions = sort(definitions)
DeployStart ==
    /\ deploy_pc = "start"
    /\ client' = get_docker_client(docker_api)
    /\ LET r == sort_services_by_dependencies(definitions) IN
        IF r.raised
        THEN /\ DeployRaise("CycleOrMissingDependency")
             /\ UNCHANGED <<sorted_definitions, deploy_idx>>
        ELSE /\ sorted_definitions' = r.value
             /\ deploy_error' = deploy_error
             /\ IF r.value = <<>>
                THEN deploy_pc' = "returned" /\ deploy_idx' = 0
                ELSE deploy_pc' = "resolve" /\ deploy_idx' = 1
    /\ UNCHANGED <<definitions, deployed_containers, current_id, runtime,
                   runtime_before, next_id, gateway_log, othersOfDeploy>>

\* image resolution: build a local path, then pull_image_if_needed.  The
\* watcher's build returns False without a Dockerfile ("none") and catches
\* every exception of images.build ("failed"); its result is not read.
\* With the async helpers neither call reaches the runtime: the build fails
\* on the coroutine and is swallowed, the pull coroutine is never awaited.
DeployResolveImage ==
    /\ deploy_pc = "resolve"
    /\ \E build \in {"none", "built", "failed"},
          pull \in {"present", "pulled", "failed"} :
        LET n == CurrentDef.name
            didBuild == IF IsLocalPath(CurrentDef.image) /\ docker_api = "sync"
                        THEN build ELSE "none"
            didPull == IF docker_api = "sync" THEN pull ELSE "present"
            l0 == Append(gateway_log, LogEntry("resolve", n))
            l1 == CASE didBuild = "built" -> Append(l0, LogEntry("build", n))
                    [] didBuild = "failed" ->
                          Append(l0, LogEntry("build_failed", n))
                    [] OTHER -> l0
        IN
        /\ build = didBuild
        /\ pull = didPull
        /\ CASE didPull = "present" ->
                  /\ gateway_log' = l1
                  /\ deploy_pc' = "create"
                  /\ deploy_error' = deploy_error
             [] didPull = "pulled" ->
                  /\ gateway_log' = Append(l1, LogEntry("pull", n))
                  /\ deploy_pc' = "create"
                  /\ deploy_error' = deploy_error
             [] didPull = "failed" ->
                  /\ gateway_log' = l1
                  /\ DeployRaise("APIError")
    /\ UNCHANGED <<definitions, client, sorted_definitions, deploy_idx,
                   deployed_containers, current_id, runtime, runtime_before,
                   next_id, othersOfDeploy>>

\* container = client.containers.run(...); deployed_containers[name] = id
DeployCreate ==
    /\ deploy_pc = "create"
    /\ IF ~HasClientAttrs(client)
       THEN /\ DeployRaise("AttributeError")
            /\ UNCHANGED <<deploy_idx, deployed_containers, current_id,
                           runtime, next_id, gateway_log>>
       ELSE \E ok \in BOOLEAN :
            IF ok
            THEN /\ runtime' = Append(runtime,
                        Container(ShortId(next_id), CurrentDef.name,
                                  ResolvedImage(CurrentDef), "map"))
                 /\ next_id' = next_id + 1
                 /\ current_id' = ShortId(next_id)
                 /\ deployed_containers' =
                        Put(deployed_containers, CurrentDef.name,
                            ShortId(next_id))
                 /\ gateway_log' =
                        Append(gateway_log, LogEntry("run", CurrentDef.name))
                 /\ deploy_error' = deploy_error
                 /\ IF AfterCreate(CurrentDef) = "probe"
                    THEN deploy_pc' = "probe" /\ deploy_idx' = deploy_idx
                    ELSE DeployAdvance
            ELSE /\ DeployRaise("APIError")
                 /\ UNCHANGED <<deploy_idx, deployed_containers, current_id,
                                runtime, next_id, gateway_log>>
    /\ UNCHANGED <<definitions, client, sorted_definitions, runtime_before,
                   othersOfDeploy>>

\* the wait_condition branch: substitution, then wait_for_condition(.., 60)
DeployProbe ==
    /\ deploy_pc = "probe"
    /\ LET n == CurrentDef.name
           w == Substituted(CurrentDef, deployed_containers) IN
        /\ definitions' = WithCondition(definitions, n, w)
        /\ sorted_definitions' = WithCondition(sorted_definitions, n, w)
        /\ \E r \in WaitOutcomes(w) :
            CASE r = "True" ->
                  /\ gateway_log' =
                        Append(gateway_log, LogEntry("probe_true", n))
                  /\ deploy_error' = deploy_error
                  /\ DeployAdvance
              [] r = "False" ->
                  /\ gateway_log' =
                        Append(gateway_log, LogEntry("probe_false", n))
                  /\ deploy_pc' = "stop"
                  /\ UNCHANGED <<deploy_error, deploy_idx>>
              [] OTHER ->
                  /\ gateway_log' =
                        Append(gateway_log, LogEntry("probe_raised", n))
                  /\ DeployRaise(r)
                  /\ UNCHANGED deploy_idx
    /\ UNCHANGED <<client, deployed_containers, current_id, runtime,
                   runtime_before, next_id, othersOfDeploy>>

\* container.stop()
DeployStop ==
    /\ deploy_pc = "stop"
    /\ \E ok \in BOOLEAN :
        IF ok
        THEN /\ runtime' = StopContainer(runtime, current_id)
             /\ gateway_log' =
                    Append(gateway_log, LogEntry("stop", CurrentDef.name))
             /\ deploy_pc' = "remove"
             /\ deploy_error' = deploy_error
        ELSE /\ DeployRaise("APIError")
             /\ UNCHANGED <<runtime, gateway_log>>
    /\ UNCHANGED <<definitions, client, sorted_definitions, deploy_idx,
                   deployed_containers, current_id, runtime_before, next_id,
                   othersOfDeploy>>

\* container.remove(); raise RuntimeError("Dependency not met ...")
DeployRemove ==
    /\ deploy_pc = "remove"
    /\ \E ok \in BOOLEAN :
        IF ok
        THEN /\ runtime' = RemoveContainer(runtime, current_id)
             /\ gateway_log' =
                    Append(gateway_log, LogEntry("remove", CurrentDef.name))
             /\ DeployRaise("DependencyNotMet")
        ELSE /\ DeployRaise("APIError")
             /\ UNCHANGED <<runtime, gateway_log>>
    /\ UNCHANGED <<definitions, client, sorted_definitions, deploy_idx,
                   deployed_containers, current_id, runtime_before, next_id,
                   othersOfDeploy>>

\* containers that run before the call
InitialRuntimes ==
    {<<>>, <<Container("c0", "old", "redis", "map")>>}

DeployInit ==
    /\ HealthIdle
    /\ SortIdle
    /\ WaitIdle
    /\ SnapIdle
    /\ TemplateIdle
    /\ DependencyIdle
    /\ TaskIdle
    /\ docker_api \in DockerApis
    /\ definitions \in DeployBatches
    /\ client = None
    /\ sorted_definitions = <<>>
    /\ deploy_idx = 0
    /\ deployed_containers = <<>>
    /\ deploy_pc = "start"
    /\ deploy_error = None
    /\ current_id = None
    /\ runtime \in InitialRuntimes
    /\ runtime_before = runtime
    /\ next_id = 1
    /\ gateway_log = <<>>

DeployNext ==
    \/ DeployStart
    \/ DeployResolveImage
    \/ DeployCreate
    \/ DeployProbe
    \/ DeployStop
    \/ DeployRemove

SpecDeploy == DeployInit /\ [][DeployNext]_vars

(* ------------------------------------------------------------------ *)
(* Declared dependencies (src/src/dependencies.py)                     *)
(* ------------------------------------------------------------------ *)
\* the services callers name as depended on
DependsOnNames == {"db", "cache"}

\* the conditions callers declare
DeclaredConds == {TcpCond, LogCond}

\* a name already defined keeps its first definition
DependenciesAfterDefine_KeepsFirst(deps, name, def) ==
    IF name \in DOMAIN deps THEN deps ELSE Put(deps, name, def)

\* `self._dependencies[service_name] = {...}`
DependenciesAfterDefine(deps, name, def) == Put(deps, name, def)

\* define_dependency(service_name, depends_on, wait_condition)
DefineDependency(service_name, depends_on, wait_condition) ==
    /\ dep_time < MaxDefined
    /\ deploy_pc \in {"idle", "start", "returned", "raised"}
    /\ dependencies' = DependenciesAfterDefine(dependencies, service_name,
           [depends_on |-> depends_on, wait_condition |-> wait_condition,
            created_at |-> dep_time])
    /\ dep_time' = dep_time + 1
    /\ dep_result' = [call |-> "define_dependency", service |-> service_name,
                      depends_on |-> depends_on,
                      condition_type |-> wait_condition.type,
                      status |-> "defined"]
    /\ defined_log' = Append(defined_log,
           [service |-> service_name, depends_on |-> depends_on,
            wait_condition |-> wait_condition])
    /\ UNCHANGED <<sortVars, waitVars, docker_api, deployVars, runtimeVars,
                   snapVars, healthVars, templateVars, taskVars>>

\* docker_client.get_container_by_name is a coroutine function and is
\* called without await: the call gives a coroutine object and runs
\* nothing
get_container_by_name(cl, name) == "coroutine"

\* get_dependency_status(service_name)
GetDependencyStatus(service_name) ==
    /\ deploy_pc \in {"idle", "start", "returned", "raised"}
    /\ dep_result' =
          IF service_name \notin DOMAIN dependencies
          THEN [call |-> "get_dependency_status", error |-> service_name]
          ELSE LET dep_info == dependencies[service_name]
                   container == get_container_by_name(
                                    get_docker_client(docker_api), service_name)
               IN [call |-> "get_dependency_status",
                   service |-> service_name,
                   depends_on |-> dep_info.depends_on,
                   condition |-> dep_info.wait_condition,
                   container_running |-> container # None,
                   created_at |-> dep_info.created_at]
    /\ UNCHANGED <<dependencies, dep_time, defined_log, sortVars, waitVars,
                   docker_api, deployVars, runtimeVars, snapVars, healthVars,
                   templateVars, taskVars>>

DependencyInit ==
    /\ SortIdle
    /\ WaitIdle
    /\ DeployIdle
    /\ SnapIdle
    /\ HealthIdle
    /\ TemplateIdle
    /\ DependencyIdle
    /\ TaskIdle
    /\ docker_api \in DockerApis
    /\ RuntimeEmpty

DependencyNext ==
    \/ \E n \in GroupNames, d \in DependsOnNames, w \in DeclaredConds :
          DefineDependency(n, d, w)
    \/ \E n \in GroupNames : GetDependencyStatus(n)

SpecDependency == DependencyInit /\ [][DependencyNext]_vars

\* batches of db and api, api depending on db with or without an inline
\* condition
GroupBatches ==
    {<<GroupDef("db", "redis", None, NoCond), GroupDef("api", "redis", "db", w)>> :
        w \in DeclaredConds \cup {NoCond}}

\* dependencies of api are declared before, or after, a deploy_group call
GroupInit ==
    /\ DeployInit
    /\ definitions \in GroupBatches

GroupNext ==
    \/ \E w \in DeclaredConds : DefineDependency("api", "db", w)
    \/ DeployNext

SpecGroup == GroupInit /\ [][GroupNext]_vars

(* ------------------------------------------------------------------ *)
(* Snapshot / restore engine (src/src/snapshots.py)                    *)
(* ------------------------------------------------------------------ *)
SnapshotNames == {"s1", "s2"}

\* names of the containers that run before the first snapshot, in the
\* order the runtime lists them
ContainerNames == <<"web", "db", "cache", "queue">>

\* `container.image.tags[0] if container.image.tags else "unknown"`
FirstTag(c) == IF c.image = "none" THEN "unknown" ELSE c.image

\* the dictionary appended to snapshot["containers"] for one container
ContainerRecord(c) ==
    [id |-> c.id, name |-> c.name, image |-> FirstTag(c), ports |-> c.ports]

\* client.containers.list(): the running containers
ListContainers(rt) == SelectSeq(rt, LAMBDA c : c.status = "running")

\* a capture that records only the containers no stored snapshot has
RecordsOf_Incremental(rt) ==
    LET l == SelectSeq(ListContainers(rt),
                 LAMBDA c : \A n \in DOMAIN snapshots :
                     \A i \in 1..Len(snapshots[n].containers) :
                         snapshots[n].containers[i].id # c.id) IN
    [i \in 1..Len(l) |-> ContainerRecord(l[i])]

\* the records snapshot_env builds from containers.list(), in its order
RecordsOf(rt) ==
    LET l == ListContainers(rt) IN [i \in 1..Len(l) |-> ContainerRecord(l[i])]

\* the duplicate test never finding the name
AlreadyExists_Never(env_name, store) == FALSE

\* `if env_name in self._snapshots:`
AlreadyExists(env_name, store) == env_name \in DOMAIN store

\* snapshot_env(env_name): the ValueError for a stored name, else the
\* running containers are listed and recorded under the name
SnapshotEnv(env_name) ==
    /\ restore_pc # "loop"
    /\ IF AlreadyExists(env_name, snapshots)
       THEN /\ snap_pc' = "raised"
            /\ runtime_calls' = [runtime_calls EXCEPT !.snapshot_env = <<>>]
            /\ UNCHANGED <<snapshots, snap_time, created_log>>
       ELSE /\ snapshots' = Put(snapshots, env_name,
                                [env_name |-> env_name,
                                 created_at |-> snap_time,
                                 containers |-> RecordsOf(runtime)])
            /\ snap_time' = snap_time + 1
            /\ created_log' = Append(created_log, env_name)
            /\ snap_pc' = "returned"
            /\ runtime_calls' =
                  [runtime_calls EXCEPT
                      !.snapshot_env = <<"get_docker_client", "containers.list">>]
    /\ UNCHANGED <<restore_pc, restore_name, restore_idx, restored_containers,
                   failed_containers, restore_error, attempted, restores_made,
                   removals_made, snap_result, runtimeVars, othersOfSnap>>

\* the existence test letting every name through
NotFound_Never(snapshot_name, store) == FALSE

\* `if snapshot_name not in self._snapshots:`
NotFound(snapshot_name, store) == snapshot_name \notin DOMAIN store

\* restore_env(snapshot_name) up to the for loop
RestoreCall(snapshot_name) ==
    /\ restore_pc # "loop"
    /\ restores_made < MaxRestores
    /\ restores_made' = restores_made + 1
    /\ restore_name' = snapshot_name
    /\ restored_containers' = <<>>
    /\ failed_containers' = <<>>
    /\ attempted' = <<>>
    /\ IF NotFound(snapshot_name, snapshots)
       THEN /\ restore_pc' = "raised"
            /\ restore_error' = "ValueError"
            /\ restore_idx' = 0
            /\ runtime_calls' = [runtime_calls EXCEPT !.restore_env = <<>>]
       ELSE /\ restore_pc' = "loop"
            /\ restore_error' = None
            /\ restore_idx' = 1
            /\ runtime_calls' =
                  [runtime_calls EXCEPT !.restore_env = <<"get_docker_client">>]
    /\ UNCHANGED <<snapshots, snap_time, created_log, snap_pc, removals_made, snap_result,
                   runtimeVars, othersOfSnap>>

RestoreRecords == snapshots[restore_name].containers

\* the outer except re-raising instead of recording
OuterHandler_Reraise == "raise"

\* the outer `except Exception as e:` appends to failed_containers
OuterHandler == "record"

\* the inner `except Exception as e:` prints and continues
InnerHandler == "skip"

\* what handles an exception raised at each step of one iteration
HandlerOf(stage) == IF stage = "run" THEN InnerHandler ELSE OuterHandler

\* the step at which the iteration for `info` fails, "ok" if none does:
\* the pull is tried unless the image is "unknown"; `.items()` fails on
\* ports that are not a dictionary; containers.run may fail
Outcomes(info) ==
    LET pulls == IF info.image # "unknown" THEN {"ok", "pull"} ELSE {"ok"}
        parses == IF info.ports = "null" THEN {"config"} ELSE {"ok"}
        runs == {"ok", "run"} IN
    {IF pl # "ok" THEN pl ELSE IF pa # "ok" THEN pa ELSE rn :
        pl \in pulls, pa \in parses, rn \in runs}

\* the restore writing the new container's id into the record it read
StoreAfterRestore_Rebinds(store, name, idx, new_id) ==
    [store EXCEPT ![name].containers[idx].id = new_id]

\* the snapshot store after a record was restored: restore_env reads
\* container_info and appends to its own lists only
StoreAfterRestore(store, name, idx, new_id) == store

\* the runtime calls of one iteration that ends with outcome o: the pull
\* unless the image is "unknown", containers.run when the iteration got
\* that far
IterationCalls(info, o) ==
    (IF info.image # "unknown" THEN <<"pull">> ELSE <<>>)
        \o (IF o \in {"ok", "run"} THEN <<"containers.run">> ELSE <<>>)

\* one iteration of `for container_info in snapshot["containers"]:`
RestoreRecord ==
    /\ restore_pc = "loop"
    /\ restore_idx <= Len(RestoreRecords)
    /\ LET info == RestoreRecords[restore_idx] IN
       \E o \in Outcomes(info) :
        /\ attempted' = Append(attempted, [name |-> info.name, outcome |-> o])
        /\ runtime_calls' =
              [runtime_calls EXCEPT !.restore_env = @ \o IterationCalls(info, o)]
        /\ IF o = "ok"
           THEN /\ runtime' = Append(runtime,
                        Container(ShortId(next_id), info.name, info.image,
                                  "map"))
                /\ next_id' = next_id + 1
                /\ restored_containers' = Append(restored_containers,
                        [original_id |-> info.id, new_id |-> ShortId(next_id),
                         name |-> info.name])
                /\ restore_idx' = restore_idx + 1
                /\ snapshots' = StoreAfterRestore(snapshots, restore_name,
                                                  restore_idx, ShortId(next_id))
                /\ UNCHANGED <<failed_containers, restore_pc, restore_error>>
           ELSE /\ UNCHANGED <<runtimeVars, restored_containers, snapshots>>
                /\ CASE HandlerOf(o) = "record" ->
                          /\ failed_containers' = Append(failed_containers,
                                [name |-> info.name, image |-> info.image,
                                 error |-> o])
                          /\ restore_idx' = restore_idx + 1
                          /\ UNCHANGED <<restore_pc, restore_error>>
                     [] HandlerOf(o) = "skip" ->
                          /\ restore_idx' = restore_idx + 1
                          /\ UNCHANGED <<failed_containers, restore_pc,
                                         restore_error>>
                     [] OTHER ->
                          /\ restore_pc' = "raised"
                          /\ restore_error' = o
                          /\ UNCHANGED <<failed_containers, restore_idx>>
    /\ UNCHANGED <<snap_time, created_log, snap_pc, restore_name, restores_made,
                   removals_made, snap_result, othersOfSnap>>

\* the for loop is exhausted: return the report
RestoreReturn ==
    /\ restore_pc = "loop"
    /\ restore_idx > Len(RestoreRecords)
    /\ restore_pc' = "returned"
    /\ UNCHANGED <<snapshots, snap_time, created_log, snap_pc, restore_name, restore_idx,
                   restored_containers, failed_containers, restore_error,
                   attempted, restores_made, removals_made, runtime_calls,
                   snap_result, runtimeVars, othersOfSnap>>

\* the operator removes a container behind the engine's back
RuntimeRemove ==
    /\ restore_pc # "loop"
    /\ removals_made < MaxRemovals
    /\ removals_made' = removals_made + 1
    /\ \E i \in 1..Len(runtime) : runtime' = RemoveAt(runtime, i)
    /\ UNCHANGED <<next_id, snapshots, snap_time, created_log, snap_pc, restore_pc,
                   restore_name, restore_idx, restored_containers,
                   failed_containers, restore_error, attempted, restores_made,
                   runtime_calls, snap_result, othersOfSnap>>

\* delete_snapshot(name): the ValueError for a name that is not stored,
\* else the entry is deleted
DeleteSnapshot(name) ==
    /\ restore_pc # "loop"
    /\ Len(created_log) < MaxCreated
    /\ IF name \notin DOMAIN snapshots
       THEN /\ snap_result' = [call |-> "delete_snapshot", raised |-> name]
            /\ UNCHANGED snapshots
       ELSE /\ snapshots' = Drop(snapshots, name)
            /\ snap_result' = [call |-> "delete_snapshot",
                               snapshot_name |-> name, status |-> "deleted"]
    /\ UNCHANGED <<snap_time, created_log, snap_pc, restore_pc, restore_name,
                   restore_idx, restored_containers, failed_containers,
                   restore_error, attempted, restores_made, removals_made,
                   runtime_calls, runtimeVars, othersOfSnap>>

\* the names of the records of a stored snapshot, in stored order
RecordNames(snapshot) ==
    [i \in 1..Len(snapshot.containers) |-> snapshot.containers[i].name]

\* list_snapshots(): one summary per stored snapshot
ListSnapshots ==
    /\ restore_pc # "loop"
    /\ snap_result' =
          [call |-> "list_snapshots",
           value |-> [n \in DOMAIN snapshots |->
                        [name |-> n,
                         container_count |-> Len(snapshots[n].containers),
                         created_at |-> snapshots[n].created_at,
                         containers |-> RecordNames(snapshots[n])]]]
    /\ UNCHANGED <<snapshots, snap_time, created_log, snap_pc, restore_pc, restore_name,
                   restore_idx, restored_containers, failed_containers,
                   restore_error, attempted, restores_made, removals_made,
                   runtime_calls, runtimeVars, othersOfSnap>>

\* get_snapshot(name): the error dictionary, or the stored fields
GetSnapshot(name) ==
    /\ restore_pc # "loop"
    /\ snap_result' =
          IF name \notin DOMAIN snapshots
          THEN [call |-> "get_snapshot", error |-> name]
          ELSE [call |-> "get_snapshot",
                name |-> snapshots[name].env_name,
                created_at |-> snapshots[name].created_at,
                containers |-> snapshots[name].containers]
    /\ UNCHANGED <<snapshots, snap_time, created_log, snap_pc, restore_pc, restore_name,
                   restore_idx, restored_containers, failed_containers,
                   restore_error, attempted, restores_made, removals_made,
                   runtime_calls, runtimeVars, othersOfSnap>>

\* `{c["name"]: c for c in snapshot["containers"]}`: a later record of the
\* same name replaces an earlier one
ByContainerName(snapshot) ==
    LET cs == snapshot.containers IN
    [n \in {cs[i].name : i \in 1..Len(cs)} |->
        cs[CHOOSE i \in 1..Len(cs) :
              /\ cs[i].name = n
              /\ \A j \in 1..Len(cs) : cs[j].name = n => j <= i]]

\* compare_snapshots(name1, name2)
CompareSnapshots(name1, name2) ==
    /\ restore_pc # "loop"
    /\ snap_result' =
          IF name1 \notin DOMAIN snapshots
          THEN [call |-> "compare_snapshots", error |-> name1]
          ELSE IF name2 \notin DOMAIN snapshots
          THEN [call |-> "compare_snapshots", error |-> name2]
          ELSE LET containers1 == ByContainerName(snapshots[name1])
                   containers2 == ByContainerName(snapshots[name2])
                   common == DOMAIN containers1 \cap DOMAIN containers2 IN
               [call |-> "compare_snapshots",
                snapshot1 |-> name1,
                snapshot2 |-> name2,
                added_containers |-> DOMAIN containers2 \ DOMAIN containers1,
                removed_containers |-> DOMAIN containers1 \ DOMAIN containers2,
                changed_containers |->
                    {[name |-> n,
                      old_image |-> containers1[n].image,
                      new_image |-> containers2[n].image,
                      old_ports |-> containers1[n].ports,
                      new_ports |-> containers2[n].ports] :
                        n \in {m \in common :
                                  \/ containers1[m].image # containers2[m].image
                                  \/ containers1[m].ports # containers2[m].ports}}]
    /\ UNCHANGED <<snapshots, snap_time, created_log, snap_pc, restore_pc, restore_name,
                   restore_idx, restored_containers, failed_containers,
                   restore_error, attempted, restores_made, removals_made,
                   runtime_calls, runtimeVars, othersOfSnap>>

\* the containers that run when the process starts
SnapRuntimes ==
    UNION {{[i \in 1..k |-> Container(ids[i], ContainerNames[i], im[i], po[i])] :
                  im \in [1..k -> {"nginx", "none"}],
                  po \in [1..k -> {"map", "null"}],
                  ids \in {<<"a1", "a2", "a3", "a4">>}} :
           k \in 0..MaxContainers}

SnapInit ==
    /\ HealthIdle
    /\ SortIdle
    /\ WaitIdle
    /\ DeployIdle
    /\ SnapIdle
    /\ TemplateIdle
    /\ DependencyIdle
    /\ TaskIdle
    /\ docker_api = "async"
    /\ runtime \in SnapRuntimes
    /\ next_id = 1

SnapNext ==
    \/ \E n \in SnapshotNames : SnapshotEnv(n)
    \/ \E n \in SnapshotNames : RestoreCall(n)
    \/ RestoreRecord
    \/ RestoreReturn
    \/ RuntimeRemove

SpecSnap == SnapInit /\ [][SnapNext]_vars

\* two containers running: one of a tagged image whose ports the runtime
\* reports as null, one of an untagged image with a port mapping
StoreRuntime ==
    <<Container("a1", ContainerNames[1], "nginx", "null"),
      Container("a2", ContainerNames[2], "none", "map")>>

\* the snapshot store with its reading calls: one starting runtime
StoreInit ==
    /\ HealthIdle
    /\ SortIdle
    /\ WaitIdle
    /\ DeployIdle
    /\ SnapIdle
    /\ TemplateIdle
    /\ DependencyIdle
    /\ TaskIdle
    /\ docker_api = "async"
    /\ runtime = StoreRuntime
    /\ next_id = 1

StoreNext ==
    \/ \E n \in SnapshotNames : SnapshotEnv(n)
    \/ \E n \in SnapshotNames : RestoreCall(n)
    \/ RestoreRecord
    \/ RestoreReturn
    \/ RuntimeRemove
    \/ ListSnapshots
    \/ \E n \in SnapshotNames : GetSnapshot(n)
    \/ \E n1, n2 \in SnapshotNames : CompareSnapshots(n1, n2)

SpecStore == StoreInit /\ [][StoreNext]_vars

\* captures of an environment that does not change: any containers
\* running, snapshots taken and compared
CaptureNext ==
    \/ \E n \in SnapshotNames : SnapshotEnv(n)
    \/ \E n \in SnapshotNames : GetSnapshot(n)
    \/ \E n1, n2 \in SnapshotNames : CompareSnapshots(n1, n2)

SpecCapture == SnapInit /\ [][CaptureNext]_vars

\* the snapshot store with deletion: names are stored, deleted and
\* stored again, and restored from
NamesNext ==
    \/ \E n \in SnapshotNames : SnapshotEnv(n)
    \/ \E n \in SnapshotNames : DeleteSnapshot(n)
    \/ \E n \in SnapshotNames : RestoreCall(n)
    \/ RestoreRecord
    \/ RestoreReturn

SpecNames == StoreInit /\ [][NamesNext]_vars

(* ------------------------------------------------------------------ *)
(* Service templates (src/src/templates.py)                            *)
(* ------------------------------------------------------------------ *)
\* template names given by callers; "" is a missing name
TemplateNames == {"t1", "t2"}

\* a dict: a function from its keys; {} is the function of no key
EmptyDict == [k \in {} |-> ""]

\* the argument None where a dict may be passed
NoneDict == [py_none |-> TRUE]

IsNone(x) == "py_none" \in DOMAIN x

\* `x or {}`
OrEmpty(x) == IF IsNone(x) \/ DOMAIN x = {} THEN EmptyDict ELSE x

\* `{**a, **b}`: every key of either, the value of b where b has the key
Merge_TemplateWins(a, b) ==
    [k \in DOMAIN a \cup DOMAIN b |-> IF k \in DOMAIN a THEN a[k] ELSE b[k]]

Merge(a, b) ==
    [k \in DOMAIN a \cup DOMAIN b |-> IF k \in DOMAIN b THEN b[k] ELSE a[k]]

\* a dict of one and of two entries
Dict1(k, v) == [x \in {k} |-> v]

Dict2(k1, v1, k2, v2) == [x \in {k1, k2} |-> IF x = k1 THEN v1 ELSE v2]

\* the order in which the port dicts given by callers list their keys
PortKeyOrder == <<"80", "443">>

\* `list(ports.keys())[0]`
FirstKey(ports) ==
    PortKeyOrder[CHOOSE i \in 1..Len(PortKeyOrder) :
                    /\ PortKeyOrder[i] \in DOMAIN ports
                    /\ \A j \in 1..(i - 1) : PortKeyOrder[j] \notin DOMAIN ports]

\* the arguments callers pass to create_template after the name: image
\* ("" is a missing image), ports, env_vars and health_check
CreateArgs ==
    {<<"nginx", Dict2("80", "8080", "443", "8443"),
       Dict2("MODE", "prod", "DEBUG", "0"), NoneDict>>,
     <<"nginx", Dict1("80", "8080"), NoneDict,
       [endpoint |-> [scheme |-> "http://", host |-> "localhost", port |-> "80"],
        interval |-> 5]>>,
     <<"", Dict1("80", "8080"), NoneDict, NoneDict>>,
     <<"nginx", EmptyDict, NoneDict, NoneDict>>}

\* detect_health_check_type(image, port): TCP for databases, caches,
\* queues and unknown images, HTTP for web servers
DetectHealthCheckType(image, port) ==
    IF image \in {"nginx", "apache", "httpd", "caddy"}
    THEN [scheme |-> "http://", host |-> "localhost", port |-> port]
    ELSE [scheme |-> "tcp://", host |-> "localhost", port |-> port]

\* the health check stored: the one given, or the one detected from the
\* image and the first container port
StoredHealthCheck(image, ports, health_check) ==
    IF IsNone(health_check)
    THEN [endpoint |-> DetectHealthCheckType(image, FirstKey(ports)),
          interval |-> 30]
    ELSE health_check

\* no name is ever found in the store
TemplateExists_Never(name, store) == FALSE

\* `name in self._templates`
TemplateExists(name, store) == name \in DOMAIN store

\* which required field create_template reports as missing, if any
MissingField(name, image, ports) ==
    IF name = "" THEN "missing_name"
    ELSE IF image = "" THEN "missing_image"
    ELSE IF DOMAIN ports = {} THEN "missing_ports"
    ELSE "none"

\* create_template(name, image, ports, env_vars, health_check)
CreateTemplate(name, image, ports, env_vars, health_check) ==
    /\ tmpl_time < MaxTemplatesCreated
    /\ IF MissingField(name, image, ports) # "none"
       THEN /\ tmpl_result' = [call |-> "create_template",
                               raised |-> MissingField(name, image, ports)]
            /\ UNCHANGED <<templates, tmpl_time>>
       ELSE IF TemplateExists(name, templates)
       THEN /\ tmpl_result' = [call |-> "create_template",
                               raised |-> "already_exists"]
            /\ UNCHANGED <<templates, tmpl_time>>
       ELSE /\ templates' = Put(templates, name,
                  [image |-> image,
                   ports |-> ports,
                   env_vars |-> OrEmpty(env_vars),
                   health_check |-> StoredHealthCheck(image, ports, health_check),
                   created_at |-> tmpl_time])
            /\ tmpl_time' = tmpl_time + 1
            /\ tmpl_result' = [call |-> "create_template",
                               template_name |-> name, status |-> "created"]
    /\ UNCHANGED <<tmpl_deployed, runtimeVars, othersOfTemplate>>

\* the overrides argument: None, or a dict with some of the keys image,
\* ports and env_vars
OverrideArgs ==
    {NoneDict,
     [ports |-> Dict1("80", "9090")],
     [image |-> "redis", env_vars |-> Dict2("MODE", "dev", "TRACE", "1")]}

\* `overrides.get(key, default)`
GetOr(d, key, default) == IF key \in DOMAIN d THEN d[key] ELSE default

\* what run_from_template passes to _deploy_service
Merged(template, overrides) ==
    [image |-> GetOr(overrides, "image", template.image),
     ports |-> Merge(template.ports, GetOr(overrides, "ports", EmptyDict)),
     env_vars |-> Merge(template.env_vars,
                        GetOr(overrides, "env_vars", EmptyDict))]

\* outcomes of _deploy_service: the container runs, or the pull or
\* containers.run raises
DeployServiceOutcomes == {"ok", "raised"}

\* the run writing the merged values back into the template
StoreAfterRun_WritesBack(store, name, merged) ==
    [store EXCEPT ![name].image = merged.image, ![name].ports = merged.ports,
                  ![name].env_vars = merged.env_vars]

\* the template store after a run: run_from_template builds new dicts
\* from the template and does not assign to it
StoreAfterRun(store, name, merged) == store

\* run_from_template(template_name, overrides)
RunFromTemplate(template_name, overrides) ==
    /\ Len(tmpl_deployed) < MaxTemplateRuns
    /\ IF ~TemplateExists(template_name, templates)
       THEN /\ tmpl_result' = [call |-> "run_from_template",
                               raised |-> "not_found"]
            /\ UNCHANGED <<templates, tmpl_deployed, runtimeVars>>
       ELSE LET merged == Merged(templates[template_name], OrEmpty(overrides)) IN
            \E o \in DeployServiceOutcomes :
              /\ tmpl_deployed' = Append(tmpl_deployed, merged)
              /\ templates' = StoreAfterRun(templates, template_name, merged)
              /\ IF o = "ok"
                 THEN /\ runtime' = Append(runtime,
                             Container(ShortId(next_id), "generated",
                                       merged.image, "map"))
                      /\ next_id' = next_id + 1
                      /\ tmpl_result' = [call |-> "run_from_template",
                                         container_id |-> ShortId(next_id),
                                         status |-> "running",
                                         template_name |-> template_name]
                 ELSE /\ tmpl_result' = [call |-> "run_from_template",
                                         raised |-> o]
                      /\ UNCHANGED runtimeVars
    /\ UNCHANGED <<tmpl_time, othersOfTemplate>>

\* get_template(name): the stored dict itself
GetTemplate(name) ==
    /\ tmpl_result' =
          IF ~TemplateExists(name, templates)
          THEN [call |-> "get_template", raised |-> "not_found"]
          ELSE [call |-> "get_template", template |-> templates[name]]
    /\ UNCHANGED <<templates, tmpl_time, tmpl_deployed, runtimeVars,
                   othersOfTemplate>>

\* delete_template(name)
DeleteTemplate(name) ==
    /\ IF ~TemplateExists(name, templates)
       THEN /\ tmpl_result' = [call |-> "delete_template",
                               raised |-> "not_found"]
            /\ UNCHANGED templates
       ELSE /\ templates' = Drop(templates, name)
            /\ tmpl_result' = [call |-> "delete_template",
                               template_name |-> name, status |-> "deleted"]
    /\ UNCHANGED <<tmpl_time, tmpl_deployed, runtimeVars, othersOfTemplate>>

\* the arguments callers pass to update_template after the name: image,
\* ports, env_vars and health_check, each None or a new value
UpdateArgs == {<<"redis", NoneDict, Dict1("MODE", "dev"), NoneDict>>}

\* update_template(name, image, ports, env_vars, health_check): the
\* fields given replace the stored ones, env_vars is merged
UpdateTemplate(name, image, ports, env_vars, health_check) ==
    /\ IF ~TemplateExists(name, templates)
       THEN /\ tmpl_result' = [call |-> "update_template",
                               raised |-> "not_found"]
            /\ UNCHANGED templates
       ELSE /\ templates' =
                [templates EXCEPT ![name] =
                    [image |-> IF image # None THEN image ELSE @.image,
                     ports |-> IF ~IsNone(ports) THEN ports ELSE @.ports,
                     env_vars |-> IF ~IsNone(env_vars)
                                  THEN Merge(@.env_vars, env_vars)
                                  ELSE @.env_vars,
                     health_check |-> IF ~IsNone(health_check)
                                      THEN health_check ELSE @.health_check,
                     created_at |-> @.created_at]]
            /\ tmpl_result' = [call |-> "update_template",
                               template_name |-> name, status |-> "updated"]
    /\ UNCHANGED <<tmpl_time, tmpl_deployed, runtimeVars, othersOfTemplate>>

\* a running environment and an empty template store
TemplateInit ==
    /\ SortIdle
    /\ WaitIdle
    /\ DeployIdle
    /\ SnapIdle
    /\ HealthIdle
    /\ TemplateIdle
    /\ DependencyIdle
    /\ TaskIdle
    /\ docker_api = "async"
    /\ RuntimeEmpty

TemplateNext ==
    \/ \E n \in TemplateNames \cup {""}, a \in CreateArgs :
          CreateTemplate(n, a[1], a[2], a[3], a[4])
    \/ \E n \in TemplateNames, o \in OverrideArgs : RunFromTemplate(n, o)
    \/ \E n \in TemplateNames : GetTemplate(n)
    \/ \E n \in TemplateNames : DeleteTemplate(n)
    \/ \E n \in TemplateNames, a \in UpdateArgs :
          UpdateTemplate(n, a[1], a[2], a[3], a[4])

SpecTemplate == TemplateInit /\ [][TemplateNext]_vars

(* ------------------------------------------------------------------ *)
(* Health supervisor (src/src/health.py)                               *)
(* ------------------------------------------------------------------ *)
\* container ids given to the health monitor
HealthIds == {"h1", "h2"}

\* an endpoint: the prefix startswith() looks at, and the rest
Endpoint(s, a) == [scheme |-> s, address |-> a]

TcpEndpoint == Endpoint("tcp://", "db:5432")

HttpEndpoint == Endpoint("http://", "api/health")

HttpsEndpoint == Endpoint("https://", "web/health")

Endpoints == {TcpEndpoint, HttpEndpoint}

\* the default of the `interval` parameter
DefaultInterval == 30

\* "last_check": None
NoTime == -1

\* the dict add_health_check stores; `id` is the identity of the dict
\* object, which a thread keeps a reference to in `health_info`;
\* container_id is the key get_service_health adds; status_by and
\* stamp_by are history: who wrote status and last_check last (a thread
\* number, ByCaller, or ByAdd)
ByAdd == 0

ByCaller == -1

\* an entry stored as if a probe had already succeeded
HealthCheck_Probed(e, i, n) ==
    [endpoint |-> e, interval |-> i, last_check |-> 0,
     status |-> "healthy", container_id |-> None, id |-> n,
     status_by |-> ByAdd, stamp_by |-> ByAdd]

HealthCheck(e, i, n) ==
    [endpoint |-> e, interval |-> i, last_check |-> NoTime,
     status |-> "unknown", container_id |-> None, id |-> n,
     status_by |-> ByAdd, stamp_by |-> ByAdd]

\* the check the endpoint is dispatched to
ProbeKind(e) ==
    IF e.scheme = "tcp://" THEN "tcp"
    ELSE IF e.scheme \in {"http://", "https://"} THEN "http"
    ELSE "tcp"

\* what _check_tcp_endpoint and _check_http_endpoint may return: False
\* when nothing answers (the exception is caught); connect_ex gives 0 when
\* the port answers; an HTTP server that answers may answer 4xx or 5xx
ProbeResults(e, up) ==
    IF ~up THEN {FALSE}
    ELSE IF ProbeKind(e) = "tcp" THEN {TRUE}
    ELSE BOOLEAN

\* "healthy" if is_healthy else "unhealthy"
StatusOf(is_healthy) == IF is_healthy THEN "healthy" ELSE "unhealthy"

\* a thread object whose target is _monitor_and_restart(cid); cancelled,
\* woke and iter are history: the call that unregistered the thread
\* ("no" | "disable" | "remove"), whether it has woken from a sleep since,
\* and what it has done in the iteration in progress
Thread(c) == [cid |-> c, pc |-> "started", health_info |-> 0,
              endpoint |-> NoEndpoint, is_healthy |-> FALSE, now |-> 0,
              cancelled |-> "no", woke |-> FALSE, iter |-> <<>>]

ThreadIds == 1..Len(threads)

\* the attributes threading.Thread offers; there is no stop()
ThreadMethods == {"start", "join", "is_alive", "run"}

\* the thread is inside the loop body: it passed the while test and has
\* not reached its sleep, so it probes and may restart
Active(t) ==
    threads[t].pc \in {"reading", "probing", "status", "time", "stamp",
                       "restart"}

\* the thread has left _monitor_and_restart: the while test was false
\* ("exited"), the except clause ran its break ("broke"), the restart
\* raised what the except clause does not name ("crashed"), or the read
\* of the entry raised KeyError ("keyerror")
Ended(t) == threads[t].pc \in {"exited", "broke", "crashed", "keyerror"}

\* the thread at position p, outside the loop body: health_info,
\* endpoint, is_healthy and now are assigned anew before they are read
\* again
Outside(t, p) ==
    [threads[t] EXCEPT !.pc = p, !.health_info = 0, !.endpoint = NoEndpoint,
                       !.is_healthy = FALSE, !.now = 0]

\* the values time.time() may return when the last one read was `now`
TimeReads(now) == {n \in {now, now + 1} : n <= MaxHealthClock}

\* the dict with identity n is the one stored for container c
InMap(c, n) == c \in DOMAIN health_checks /\ health_checks[c].id = n

\* the store hitting the entry of every container
Written_EveryEntry(c, n, key, value, who) ==
    [d \in DOMAIN health_checks |->
        [k \in DOMAIN health_checks[d] |->
            IF k = key THEN value ELSE health_checks[d][k]]]

\* `health_info[key] = value` on the dict with identity n, read for
\* container c, by `who`: the map's entry changes when it is this dict;
\* otherwise the dict written is no longer in the map and nothing else
\* refers to it
Written(c, n, key, value, who) ==
    IF InMap(c, n)
    THEN [health_checks EXCEPT ![c] =
             [k \in DOMAIN @ |->
                 IF k = key THEN value
                 ELSE IF key = "status" /\ k = "status_by" THEN who
                 ELSE IF key = "last_check" /\ k = "stamp_by" THEN who
                 ELSE @[k]]]
    ELSE health_checks

\* an exception that leaves one thread's function ending every thread
SetThread_EndsAll(t, r) ==
    [u \in DOMAIN threads |->
        IF u = t THEN r
        ELSE IF r.pc \in {"broke", "crashed", "keyerror"}
             THEN [threads[u] EXCEPT !.pc = "exited"]
             ELSE threads[u]]

\* thread t is replaced by r; no other thread object is touched
SetThread(t, r) == [threads EXCEPT ![t] = r]

\* the thread registered for c is recorded as unregistered by `call`
Cancel(c, call) ==
    IF c \in DOMAIN monitoring_threads /\ ~Ended(monitoring_threads[c])
    THEN SetThread(monitoring_threads[c],
             [threads[monitoring_threads[c]] EXCEPT !.cancelled = call,
                                                    !.woke = FALSE])
    ELSE threads

callerVars == <<caller_pc, caller_cid, check, enable_result, check_result>>

worldVars == <<reachable, been_reachable>>

\* add_health_check(container_id, endpoint, interval)
AddHealthCheck(c, e, i) ==
    /\ caller_pc = "idle"
    /\ checks_made < MaxChecks
    /\ checks_made' = checks_made + 1
    /\ health_checks' = Put(health_checks, c, HealthCheck(e, i, checks_made + 1))
    /\ UNCHANGED <<monitoring_threads, threads, callerVars, health_clock,
                   worldVars, restart_log, othersOfHealth>>

\* `self._monitoring_threads[container_id].stop()`: threads have no such
\* method, the attribute lookup raises
StopExisting(c) ==
    IF "stop" \in ThreadMethods THEN "ok" ELSE "AttributeError"

\* enable_auto_restart(container_id), up to and including thread.start()
EnableStart(c) ==
    /\ caller_pc = "idle"
    /\ IF c \notin DOMAIN health_checks
       THEN /\ enable_result' = "no_health_check"
            /\ UNCHANGED <<threads, caller_pc, caller_cid>>
       ELSE IF c \in DOMAIN monitoring_threads /\ StopExisting(c) # "ok"
       THEN /\ enable_result' = StopExisting(c)
            /\ UNCHANGED <<threads, caller_pc, caller_cid>>
       ELSE /\ Len(threads) < MaxThreads
            /\ threads' = Append(threads, Thread(c))
            /\ caller_pc' = "registering"
            /\ caller_cid' = c
            /\ enable_result' = None
    /\ UNCHANGED <<health_checks, checks_made, monitoring_threads, check,
                   check_result, health_clock, worldVars, restart_log,
                   othersOfHealth>>

\* ... `self._monitoring_threads[container_id] = thread` and the return
EnableRegister ==
    /\ caller_pc = "registering"
    /\ monitoring_threads' = Put(monitoring_threads, caller_cid, Len(threads))
    /\ enable_result' = "monitoring_started"
    /\ caller_pc' = "idle"
    /\ caller_cid' = None
    /\ UNCHANGED <<health_checks, checks_made, threads, check, check_result,
                   health_clock, worldVars, restart_log, othersOfHealth>>

\* disable_auto_restart(container_id)
DisableAutoRestart(c) ==
    /\ caller_pc = "idle"
    /\ monitoring_threads' =
          IF c \in DOMAIN monitoring_threads
          THEN Drop(monitoring_threads, c) ELSE monitoring_threads
    /\ threads' = Cancel(c, "disable")
    /\ UNCHANGED <<health_checks, checks_made, callerVars, health_clock,
                   worldVars, restart_log, othersOfHealth>>

\* remove_health_check(container_id): disable_auto_restart, then the
\* entry is deleted
RemoveHealthCheck(c) ==
    /\ caller_pc = "idle"
    /\ monitoring_threads' =
          IF c \in DOMAIN monitoring_threads
          THEN Drop(monitoring_threads, c) ELSE monitoring_threads
    /\ threads' = Cancel(c, "remove")
    /\ health_checks' =
          IF c \in DOMAIN health_checks
          THEN Drop(health_checks, c) ELSE health_checks
    /\ UNCHANGED <<checks_made, callerVars, health_clock, worldVars,
                   restart_log, othersOfHealth>>

\* the test of `while container_id in self._health_checks and
\* container_id in self._monitoring_threads:`
LoopTest(t) ==
    /\ threads[t].pc \in {"started", "awake"}
    /\ LET c == threads[t].cid IN
        threads' = SetThread(t,
            IF c \in DOMAIN health_checks /\ c \in DOMAIN monitoring_threads
            THEN [threads[t] EXCEPT !.pc = "reading", !.iter = <<>>]
            ELSE [Outside(t, "exited") EXCEPT !.iter = <<>>])
    /\ UNCHANGED <<health_checks, checks_made, monitoring_threads, callerVars,
                   health_clock, worldVars, restart_log, othersOfHealth>>

\* `health_info = self._health_checks[container_id]`: a KeyError when the
\* entry was deleted after the test
LoopRead(t) ==
    /\ threads[t].pc = "reading"
    /\ LET c == threads[t].cid IN
        threads' = SetThread(t,
            IF c \in DOMAIN health_checks
            THEN [threads[t] EXCEPT !.pc = "probing",
                                    !.health_info = health_checks[c].id,
                                    !.endpoint = health_checks[c].endpoint]
            ELSE Outside(t, "keyerror"))
    /\ UNCHANGED <<health_checks, checks_made, monitoring_threads, callerVars,
                   health_clock, worldVars, restart_log, othersOfHealth>>

\* the endpoint check
LoopProbe(t) ==
    /\ threads[t].pc = "probing"
    /\ \E h \in ProbeResults(threads[t].endpoint,
                             threads[t].endpoint \in reachable) :
        threads' = SetThread(t,
            [threads[t] EXCEPT !.pc = "status", !.is_healthy = h,
                               !.iter = Append(@, "probe_" \o StatusOf(h))])
    /\ UNCHANGED <<health_checks, checks_made, monitoring_threads, callerVars,
                   health_clock, worldVars, restart_log, othersOfHealth>>

\* `health_info["status"] = ...`
LoopSetStatus(t) ==
    /\ threads[t].pc = "status"
    /\ health_checks' = Written(threads[t].cid, threads[t].health_info,
                                "status", StatusOf(threads[t].is_healthy), t)
    /\ threads' = SetThread(t,
          [threads[t] EXCEPT !.pc = "time",
              !.iter = Append(@, "status_" \o StatusOf(threads[t].is_healthy))])
    /\ UNCHANGED <<checks_made, monitoring_threads, callerVars, health_clock,
                   worldVars, restart_log, othersOfHealth>>

\* the call time.time() of `health_info["last_check"] = time.time()`
LoopReadTime(t) ==
    /\ threads[t].pc = "time"
    /\ \E now \in TimeReads(health_clock) :
        /\ health_clock' = now
        /\ threads' = SetThread(t,
              [threads[t] EXCEPT !.pc = "stamp", !.now = now])
    /\ UNCHANGED <<health_checks, checks_made, monitoring_threads, callerVars,
                   worldVars, restart_log, othersOfHealth>>

\* the branch the thread takes after the update
AfterUpdate_Inverted(is_healthy) == IF is_healthy THEN "restart" ELSE "sleeping"

\* `if not is_healthy:` the try block, `else:` the sleep
AfterUpdate(is_healthy) == IF is_healthy THEN "sleeping" ELSE "restart"

\* the store of `health_info["last_check"] = time.time()`, then the
\* branch on is_healthy: the healthy branch reads the interval and sleeps
LoopSetLastCheck(t) ==
    /\ threads[t].pc = "stamp"
    /\ health_checks' = Written(threads[t].cid, threads[t].health_info,
                                "last_check", threads[t].now, t)
    /\ threads' = SetThread(t,
          IF AfterUpdate(threads[t].is_healthy) = "sleeping"
          THEN [Outside(t, "sleeping") EXCEPT !.iter = Append(@, "stamp")]
          ELSE [threads[t] EXCEPT !.pc = "restart",
                                  !.iter = Append(@, "stamp")])
    /\ UNCHANGED <<checks_made, monitoring_threads, callerVars, health_clock,
                   worldVars, restart_log, othersOfHealth>>

\* outcomes of get_docker_client_sync(), containers.get() and restart():
\* done, an exception the loop catches, one it does not
RestartOutcomes == {"ok", "DockerException", "OSError", "RuntimeError"}

\* the except clause retrying after the sleep instead of breaking
AfterRestartError_Retry(o) == "sleeping"

\* where the thread is after the restart raised o:
\* `except (DockerException, OSError)` breaks out of the loop, anything
\* else leaves the thread's target function as an unhandled exception
AfterRestartError(o) ==
    IF o \in {"DockerException", "OSError"} THEN "broke" ELSE "crashed"

\* the try block of the unhealthy branch: the restart is requested, and
\* the thread sleeps when it was done
LoopRestart(t) ==
    /\ threads[t].pc = "restart"
    /\ Len(restart_log) < MaxRestarts
    /\ \E o \in RestartOutcomes :
        /\ restart_log' =
              Append(restart_log,
                     [thread |-> t, cid |-> threads[t].cid, outcome |-> o,
                      cancelled |-> threads[t].cancelled])
        /\ threads' = SetThread(t,
              [Outside(t, IF o = "ok" THEN "sleeping"
                          ELSE AfterRestartError(o))
                  EXCEPT !.iter = Append(@, "restart")])
    /\ UNCHANGED <<health_checks, checks_made, monitoring_threads, callerVars,
                   health_clock, worldVars, othersOfHealth>>

\* time.sleep(health_info["interval"]) ends
LoopWake(t) ==
    /\ threads[t].pc = "sleeping"
    /\ threads' = SetThread(t,
          [threads[t] EXCEPT !.pc = "awake",
                             !.woke = (threads[t].cancelled # "no")])
    /\ UNCHANGED <<health_checks, checks_made, monitoring_threads, callerVars,
                   health_clock, worldVars, restart_log, othersOfHealth>>

\* one step of thread t in _monitor_and_restart
LoopStep(t) ==
    \/ LoopTest(t)
    \/ LoopRead(t)
    \/ LoopProbe(t)
    \/ LoopSetStatus(t)
    \/ LoopReadTime(t)
    \/ LoopSetLastCheck(t)
    \/ LoopRestart(t)
    \/ LoopWake(t)

\* the endpoint starts or stops answering
EndpointChange(e) ==
    /\ reachable' = IF e \in reachable THEN reachable \ {e}
                    ELSE reachable \cup {e}
    /\ been_reachable' = been_reachable \cup reachable'
    /\ UNCHANGED <<health_checks, checks_made, monitoring_threads, threads,
                   callerVars, health_clock, restart_log, othersOfHealth>>

\* get_service_health(container_id) up to the endpoint check: the error
\* result when there is no entry, else the entry is read
CheckStart(c) ==
    /\ caller_pc = "idle"
    /\ IF c \notin DOMAIN health_checks
       THEN /\ check_result' = [status |-> "error", endpoint |-> NoEndpoint]
            /\ UNCHANGED <<caller_pc, caller_cid, check>>
       ELSE /\ caller_pc' = "check_probe"
            /\ caller_cid' = c
            /\ check' = [CheckIdle EXCEPT
                            !.health_info = health_checks[c].id,
                            !.endpoint = health_checks[c].endpoint]
            /\ UNCHANGED check_result
    /\ UNCHANGED <<health_checks, checks_made, monitoring_threads, threads,
                   enable_result, health_clock, worldVars, restart_log,
                   othersOfHealth>>

\* ... the endpoint check
CheckProbe ==
    /\ caller_pc = "check_probe"
    /\ \E h \in ProbeResults(check.endpoint, check.endpoint \in reachable) :
        check' = [check EXCEPT !.is_healthy = h]
    /\ caller_pc' = "check_time"
    /\ UNCHANGED <<health_checks, checks_made, monitoring_threads, threads,
                   caller_cid, enable_result, check_result, health_clock,
                   worldVars, restart_log, othersOfHealth>>

\* ... the call time.time() of `health_info["last_check"] = time.time()`
CheckReadTime ==
    /\ caller_pc = "check_time"
    /\ \E now \in TimeReads(health_clock) :
        /\ health_clock' = now
        /\ check' = [check EXCEPT !.now = now]
    /\ caller_pc' = "check_stamp"
    /\ UNCHANGED <<health_checks, checks_made, monitoring_threads, threads,
                   caller_cid, enable_result, check_result, worldVars,
                   restart_log, othersOfHealth>>

\* ... the store of `health_info["last_check"] = time.time()`
CheckSetLastCheck ==
    /\ caller_pc = "check_stamp"
    /\ health_checks' = Written(caller_cid, check.health_info, "last_check",
                                check.now, ByCaller)
    /\ caller_pc' = "check_status"
    /\ UNCHANGED <<checks_made, monitoring_threads, threads, caller_cid,
                   check, enable_result, check_result, health_clock,
                   worldVars, restart_log, othersOfHealth>>

\* ... `health_info["status"] = ...`
CheckSetStatus ==
    /\ caller_pc = "check_status"
    /\ health_checks' = Written(caller_cid, check.health_info, "status",
                                StatusOf(check.is_healthy), ByCaller)
    /\ caller_pc' = "check_return"
    /\ UNCHANGED <<checks_made, monitoring_threads, threads, caller_cid,
                   check, enable_result, check_result, health_clock,
                   worldVars, restart_log, othersOfHealth>>

\* ... `health_info["container_id"] = container_id` and the return of the
\* dict itself
CheckReturn ==
    /\ caller_pc = "check_return"
    /\ health_checks' = Written(caller_cid, check.health_info, "container_id",
                                caller_cid, ByCaller)
    /\ check_result' = [status |-> health_checks[caller_cid].status,
                        endpoint |-> check.endpoint]
    /\ caller_pc' = "idle"
    /\ caller_cid' = None
    /\ check' = CheckIdle
    /\ UNCHANGED <<checks_made, monitoring_threads, threads, enable_result,
                   health_clock, worldVars, restart_log, othersOfHealth>>

HealthInit ==
    /\ SortIdle
    /\ WaitIdle
    /\ DeployIdle
    /\ RuntimeEmpty
    /\ SnapIdle
    /\ TemplateIdle
    /\ DependencyIdle
    /\ TaskIdle
    /\ HealthIdle
    /\ docker_api = "async"

HealthNext ==
    \/ \E c \in HealthIds, e \in Endpoints :
          AddHealthCheck(c, e, DefaultInterval)
    \/ \E c \in HealthIds : EnableStart(c)
    \/ EnableRegister
    \/ \E c \in HealthIds : DisableAutoRestart(c)
    \/ \E c \in HealthIds : RemoveHealthCheck(c)
    \/ \E t \in ThreadIds : LoopTest(t)
    \/ \E t \in ThreadIds : LoopRead(t)
    \/ \E t \in ThreadIds : LoopProbe(t)
    \/ \E t \in ThreadIds : LoopSetStatus(t)
    \/ \E t \in ThreadIds : LoopReadTime(t)
    \/ \E t \in ThreadIds : LoopSetLastCheck(t)
    \/ \E t \in ThreadIds : LoopRestart(t)
    \/ \E t \in ThreadIds : LoopWake(t)

SpecHealth == HealthInit /\ [][HealthNext]_vars

\* the endpoint each container is given in the monitored states
EndpointFor(c) == IF c = "h1" THEN HttpEndpoint ELSE HttpsEndpoint

\* the order in which the containers of the monitored states were set up
SetupOrder == <<"h1", "h2">>

\* the health monitor after add_health_check and enable_auto_restart for
\* the first n containers of SetupOrder, no thread having run yet, while
\* the endpoints in `up` answer
Monitored(n, up) ==
    /\ health_checks =
          [c \in {SetupOrder[k] : k \in 1..n} |->
              HealthCheck(EndpointFor(c), DefaultInterval,
                          CHOOSE k \in 1..n : SetupOrder[k] = c)]
    /\ checks_made = n
    /\ monitoring_threads =
          [c \in {SetupOrder[k] : k \in 1..n} |->
              CHOOSE k \in 1..n : SetupOrder[k] = c]
    /\ threads = [k \in 1..n |-> Thread(SetupOrder[k])]
    /\ caller_pc = "idle"
    /\ caller_cid = None
    /\ check = CheckIdle
    /\ enable_result = "monitoring_started"
    /\ check_result = NoResult
    /\ health_clock = 0
    /\ reachable = up
    /\ been_reachable = up
    /\ restart_log = <<>>

\* two monitored containers whose endpoints answer, with any status code:
\* the two loops, and the calls that end the loop of the first container
LoopsInit ==
    /\ SortIdle
    /\ WaitIdle
    /\ DeployIdle
    /\ RuntimeEmpty
    /\ SnapIdle
    /\ TemplateIdle
    /\ DependencyIdle
    /\ TaskIdle
    /\ Monitored(2, {HttpEndpoint, HttpsEndpoint})
    /\ docker_api = "async"

LoopsNext ==
    \/ DisableAutoRestart("h1")
    \/ RemoveHealthCheck("h1")
    \/ \E t \in ThreadIds : LoopTest(t)
    \/ \E t \in ThreadIds : LoopRead(t)
    \/ \E t \in ThreadIds : LoopProbe(t)
    \/ \E t \in ThreadIds : LoopSetStatus(t)
    \/ \E t \in ThreadIds : LoopReadTime(t)
    \/ \E t \in ThreadIds : LoopSetLastCheck(t)
    \/ \E t \in ThreadIds : LoopRestart(t)
    \/ \E t \in ThreadIds : LoopWake(t)

SpecLoops == LoopsInit /\ [][LoopsNext]_vars

\* one monitored container: its loop, get_service_health calls, the
\* endpoint, and the calls that delete and replace the entry
\* list_health_checks(): one report per entry; auto_restart tells whether
\* a thread is registered for the container
ListHealthChecks ==
    [c \in DOMAIN health_checks |->
        [container_id |-> c,
         endpoint |-> health_checks[c].endpoint,
         interval |-> health_checks[c].interval,
         status |-> health_checks[c].status,
         auto_restart |-> c \in DOMAIN monitoring_threads]]

\* health checks are added while auto-restart is enabled for h1 and its
\* loop runs
AddNext ==
    \/ \E c \in HealthIds, e \in Endpoints :
          AddHealthCheck(c, e, DefaultInterval)
    \/ EnableStart("h1")
    \/ EnableRegister
    \/ \E t \in ThreadIds : LoopTest(t)
    \/ \E t \in ThreadIds : LoopRead(t)
    \/ \E t \in ThreadIds : LoopProbe(t)
    \/ \E t \in ThreadIds : LoopSetStatus(t)
    \/ \E t \in ThreadIds : LoopReadTime(t)
    \/ \E t \in ThreadIds : LoopSetLastCheck(t)
    \/ \E t \in ThreadIds : LoopRestart(t)
    \/ \E t \in ThreadIds : LoopWake(t)

SpecAdd == HealthInit /\ [][AddNext]_vars

CheckInit ==
    /\ SortIdle
    /\ WaitIdle
    /\ DeployIdle
    /\ RuntimeEmpty
    /\ SnapIdle
    /\ TemplateIdle
    /\ DependencyIdle
    /\ TaskIdle
    /\ Monitored(1, {})
    /\ docker_api = "async"

CheckNext ==
    \/ AddHealthCheck("h1", HttpEndpoint, DefaultInterval)
    \/ RemoveHealthCheck("h1")
    \/ CheckStart("h1")
    \/ CheckProbe
    \/ CheckReadTime
    \/ CheckSetLastCheck
    \/ CheckSetStatus
    \/ CheckReturn
    \/ EndpointChange(HttpEndpoint)
    \/ \E t \in ThreadIds : LoopTest(t)
    \/ \E t \in ThreadIds : LoopRead(t)
    \/ \E t \in ThreadIds : LoopProbe(t)
    \/ \E t \in ThreadIds : LoopSetStatus(t)
    \/ \E t \in ThreadIds : LoopReadTime(t)
    \/ \E t \in ThreadIds : LoopSetLastCheck(t)
    \/ \E t \in ThreadIds : LoopRestart(t)
    \/ \E t \in ThreadIds : LoopWake(t)

SpecCheck == CheckInit /\ [][CheckNext]_vars

(* ------------------------------------------------------------------ *)
(* Resolver: reference notions, defined without the resolver's scan    *)
(* ------------------------------------------------------------------ *)
HasDep(d) == d.depends_on # None /\ d.depends_on # ""

InBatch(svcs, n) == \E e \in Range(svcs) : e.name = n

ByName(svcs, n) == CHOOSE e \in Range(svcs) : e.name = n

\* following depends_on from d reaches a definition without dependency
\* in at most k steps, never leaving the batch
RECURSIVE Resolvable(_, _, _)
Resolvable(svcs, d, k) ==
    IF ~HasDep(d) THEN TRUE
    ELSE IF k = 0 \/ ~InBatch(svcs, d.depends_on) THEN FALSE
    ELSE Resolvable(svcs, ByName(svcs, d.depends_on), k - 1)

\* acyclic, and every reference names a definition of the batch
WellFormedBatch(svcs) ==
    \A d \in Range(svcs) : Resolvable(svcs, d, Len(svcs))

\* names d depends on, directly or transitively
RECURSIVE Ancestors(_, _, _)
Ancestors(svcs, d, k) ==
    IF ~HasDep(d) \/ k = 0 \/ ~InBatch(svcs, d.depends_on) THEN {}
    ELSE {d.depends_on} \cup Ancestors(svcs, ByName(svcs, d.depends_on), k - 1)

IsPermutation(s, t) ==
    /\ Len(s) = Len(t)
    /\ \A d \in Range(s) \cup Range(t) :
          Cardinality({i \in 1..Len(s) : s[i] = d}) =
          Cardinality({i \in 1..Len(t) : t[i] = d})

RespectsDependencies(svcs, out) ==
    \A i \in 1..Len(out) :
        \A n \in Ancestors(svcs, out[i], Len(svcs)) :
            \E j \in 1..(i - 1) : out[j].name = n

\* C1: for an acyclic batch whose references all name definitions of the
\* batch, sort_services_by_dependencies does not raise and returns a
\* permutation of the input in which every definition stands after all the
\* definitions it depends on, directly or transitively.
C1_SortOrdersAcyclicBatch ==
    WellFormedBatch(services) =>
        /\ sort_pc # "raised"
        /\ sort_pc = "returned" =>
              /\ IsPermutation(sorted_services, services)
              /\ RespectsDependencies(services, sorted_services)

\* a three-definition chain given in an order the resolver had to change
C1_Witness ==
    /\ sort_pc = "returned"
    /\ WellFormedBatch(services)
    /\ Len(services) = 3
    /\ \E d \in Range(services) : Cardinality(Ancestors(services, d, 3)) = 2
    /\ sorted_services # services

UnresolvableNames(svcs) ==
    {d.name : d \in {e \in Range(svcs) : ~Resolvable(svcs, e, Len(svcs))}}

\* C2: for a batch with a cycle, a self-dependency or a dangling reference
\* the resolver never returns; it raises, and the names it reports are
\* exactly the definitions that can never become eligible, each once.
C2_SortRejectsAndReportsStuck ==
    ~WellFormedBatch(services) =>
        /\ sort_pc # "returned"
        /\ sort_pc = "raised" =>
              /\ Range(remaining_names) = UnresolvableNames(services)
              /\ Len(remaining_names) = Cardinality(UnresolvableNames(services))

\* a rejected batch of which one definition was orderable and two were not
C2_Witness ==
    /\ sort_pc = "raised"
    /\ Len(sorted_services) = 1
    /\ Len(remaining_names) = 2
    /\ \E d \in Range(services) : d.depends_on = Dangling

C7_NoAttemptRaises ==
    condition \in WellFormedConds => wait_pc # "raised"

(* ------------------------------------------------------------------ *)
(* Group deployment claims                                             *)
(* ------------------------------------------------------------------ *)
HasEntry(log, o, n) == \E i \in 1..Len(log) : log[i] = LogEntry(o, n)

IsRunning(rt, id) ==
    \E i \in 1..Len(rt) : rt[i].id = id /\ rt[i].status = "running"

InRuntime(rt, id) == \E i \in 1..Len(rt) : rt[i].id = id

\* C3: the call fails with the dependency-not-met error only after the
\* probe of the current service came back false and its container was
\* stopped and then removed; a call in which a probe came back false never
\* returns; containers created earlier in the call are never stopped or
\* removed and are still running when the call fails.
C3_FailedProbeCleansOnlyCurrent ==
    LET n == Len(gateway_log) IN
    /\ (deploy_pc = "raised" /\ deploy_error = "DependencyNotMet") =>
          /\ n >= 3
          /\ gateway_log[n - 2] = LogEntry("probe_false", CurrentDef.name)
          /\ gateway_log[n - 1] = LogEntry("stop", CurrentDef.name)
          /\ gateway_log[n] = LogEntry("remove", CurrentDef.name)
          /\ ~InRuntime(runtime, current_id)
    /\ (\E d \in GroupNames : HasEntry(gateway_log, "probe_false", d)) =>
          /\ deploy_pc # "returned"
          /\ deploy_pc = "raised" =>
                deploy_error \in {"DependencyNotMet", "APIError"}
    /\ \A j \in 1..Len(sorted_definitions) :
          (j < deploy_idx \/ deploy_pc = "returned") =>
              /\ IsRunning(runtime, deployed_containers[sorted_definitions[j].name])
              /\ ~HasEntry(gateway_log, "stop", sorted_definitions[j].name)
              /\ ~HasEntry(gateway_log, "remove", sorted_definitions[j].name)

\* the second service's probe failed while the first service is running
C3_Witness ==
    /\ deploy_pc = "raised"
    /\ deploy_error = "DependencyNotMet"
    /\ deploy_idx = 2
    /\ CurrentDef.depends_on = sorted_definitions[1].name
    /\ CurrentDef.wait_condition.type = "tcp"
    /\ Len(runtime) = Len(runtime_before) + 1

PositionOf(defs, n) == CHOOSE i \in 1..Len(defs) : defs[i].name = n

\* C4: image resolution and container creation of a service begin only
\* after the previous service in resolver order had its container created
\* and, if it has a readiness condition, its probe returned true; a
\* container is created only after the container of the service it
\* depends on.
C4_NextServiceWaitsForPrevious ==
    \A i \in 1..Len(gateway_log) :
        LET e == gateway_log[i]
            before == SubSeq(gateway_log, 1, i - 1)
            pos == PositionOf(sorted_definitions, e.name)
            def == sorted_definitions[pos] IN
        e.op \in {"resolve", "build", "pull", "run"} =>
            /\ pos > 1 =>
                LET prev == sorted_definitions[pos - 1] IN
                /\ HasEntry(before, "run", prev.name)
                /\ prev.wait_condition # NoCond =>
                      HasEntry(before, "probe_true", prev.name)
            /\ (e.op = "run" /\ HasDep(def)) =>
                  HasEntry(before, "run", def.depends_on)

\* the dependent service was given second place, behind a service with a
\* readiness condition, and its container was created
C4_Witness ==
    /\ Len(sorted_definitions) = 2
    /\ sorted_definitions[1].wait_condition # NoCond
    /\ sorted_definitions[2].depends_on = sorted_definitions[1].name
    /\ sorted_definitions[1].name # definitions[1].name
    /\ HasEntry(gateway_log, "run", sorted_definitions[2].name)

\* C5: a batch with a cycle or a dangling dependency is rejected with the
\* circular/missing-dependency error before any image is built or pulled
\* and before any container is created; the runtime's containers are the
\* same after the call as before it.
C5_BadBatchRejectedWithoutEffect ==
    (~WellFormedBatch(definitions) /\ deploy_pc # "start") =>
        /\ deploy_pc = "raised"
        /\ deploy_error = "CycleOrMissingDependency"
        /\ gateway_log = <<>>
        /\ runtime = runtime_before

\* a rejected batch one of whose definitions could have been deployed,
\* with a container running before the call
C5_Witness ==
    /\ deploy_pc = "raised"
    /\ deploy_error = "CycleOrMissingDependency"
    /\ Len(definitions) = 2
    /\ \E d \in Range(definitions) : ~HasDep(d)
    /\ \E d \in Range(definitions) : d.depends_on = Dangling
    /\ runtime_before # <<>>
    /\ docker_api = "sync"

(* ------------------------------------------------------------------ *)
(* Restore claims                                                      *)
(* ------------------------------------------------------------------ *)
\* C8: a failure while restoring one record never aborts restore_env: the
\* call raises only for an unknown snapshot name, before any record is
\* tried; inside the loop the records tried so far are exactly the
\* snapshot's first records in recorded order, and when the call returns
\* every record has been tried.
C8_RestoreNeverAborts ==
    /\ restore_pc = "raised" =>
          /\ restore_error = "ValueError"
          /\ attempted = <<>>
    /\ restore_pc \in {"loop", "returned"} =>
          /\ Len(attempted) <= Len(RestoreRecords)
          /\ \A i \in 1..Len(attempted) :
                attempted[i].name = RestoreRecords[i].name
          /\ restore_pc = "loop" => Len(attempted) = restore_idx - 1
          /\ restore_pc = "returned" =>
                Len(attempted) = Len(RestoreRecords)

\* the first record failed at the pull and the second was still restored
C8_Witness ==
    /\ restore_pc = "returned"
    /\ Len(attempted) = 2
    /\ attempted[1].outcome = "pull"
    /\ attempted[2].outcome = "ok"
    /\ Len(restored_containers) = 1

\* C9: when restore_env returns, every record is accounted for exactly
\* once: restored records are in restored_containers, records that failed
\* at any step are in failed_containers, and the two lists together have
\* as many entries as the snapshot has records.
C9_EveryRecordAccountedFor ==
    restore_pc = "returned" =>
        /\ Len(restored_containers) + Len(failed_containers)
              = Len(RestoreRecords)
        /\ Len(restored_containers) <= Len(RestoreRecords)
        /\ \A i \in 1..Len(attempted) :
              IF attempted[i].outcome = "ok"
              THEN \E j \in 1..Len(restored_containers) :
                      restored_containers[j].name = attempted[i].name
              ELSE \E j \in 1..Len(failed_containers) :
                      /\ failed_containers[j].name = attempted[i].name
                      /\ failed_containers[j].error = attempted[i].outcome

(* ------------------------------------------------------------------ *)
(* Snapshot store claims                                               *)
(* ------------------------------------------------------------------ *)
\* C18: snapshot_env with a name that is stored raises its ValueError
\* before any runtime call and leaves the store as it was: the stored
\* snapshot keeps its records and creation time, none is added, and the
\* runtime is untouched
C18_DuplicateNameRejected ==
    /\ [](snap_pc = "raised" => runtime_calls.snapshot_env = <<>>)
    /\ [][\A n \in SnapshotNames :
            (n \in DOMAIN snapshots /\ SnapshotEnv(n)) =>
                /\ snap_pc' = "raised"
                /\ runtime_calls'.snapshot_env = <<>>
                /\ snapshots' = snapshots
                /\ snap_time' = snap_time
                /\ runtime' = runtime]_vars

\* a duplicate snapshot_env was rejected while the running containers are
\* no longer the ones any stored snapshot recorded
C18_Witness ==
    /\ snap_pc = "raised"
    /\ runtime_calls.snapshot_env = <<>>
    /\ snapshots # <<>>
    /\ \A n \in DOMAIN snapshots :
          /\ snapshots[n].containers # <<>>
          /\ snapshots[n].containers # RecordsOf(runtime)

\* C19: restore_env with a name that is not stored raises its ValueError
\* with no side effect: no runtime call (no pull, no containers.run), no
\* record tried, the runtime and the store unchanged
C19_UnknownNameRejected ==
    /\ [](restore_pc = "raised" =>
            /\ restore_error = "ValueError"
            /\ runtime_calls.restore_env = <<>>
            /\ attempted = <<>>
            /\ restored_containers = <<>>)
    /\ [][\A n \in SnapshotNames :
            (n \notin DOMAIN snapshots /\ RestoreCall(n)) =>
                /\ restore_pc' = "raised"
                /\ restore_error' = "ValueError"
                /\ runtime_calls'.restore_env = <<>>
                /\ snapshots' = snapshots
                /\ runtime' = runtime
                /\ next_id' = next_id]_vars

\* restore_env was refused for a name that is not stored while another
\* snapshot with records is stored and containers run
C19_Witness ==
    /\ restore_pc = "raised"
    /\ restore_name \notin DOMAIN snapshots
    /\ \E n \in DOMAIN snapshots : snapshots[n].containers # <<>>
    /\ runtime # <<>>

\* C20: no call of snapshot_env, restore_env, list_snapshots,
\* get_snapshot or compare_snapshots and no change of the running
\* containers alters a stored snapshot: every name stored before a step
\* is stored after it with the same creation time and the same records in
\* the same order
C20_StoredSnapshotNeverMutated ==
    [][\A n \in DOMAIN snapshots :
          /\ n \in DOMAIN snapshots'
          /\ snapshots'[n] = snapshots[n]]_vars

\* two snapshots stored at different times; since then a container was
\* removed, a restore created containers and a reading call returned,
\* so that the running containers differ from both snapshots
C20_Witness ==
    /\ DOMAIN snapshots = SnapshotNames
    /\ removals_made > 0
    /\ restore_pc = "returned"
    /\ restored_containers # <<>>
    /\ snap_result.call = "compare_snapshots"
    /\ \A n \in DOMAIN snapshots :
          snapshots[n].containers # RecordsOf(runtime)

TimesCreated(n) ==
    Cardinality({i \in 1..Len(created_log) : created_log[i] = n})

\* C21: snapshot names are unique in the life of the process: over any
\* sequence of snapshot_env, delete_snapshot and restore_env calls no
\* name is given to more than one snapshot; a snapshot_env with a name
\* that was used before does not succeed
C21_NamesNeverReused ==
    \A n \in SnapshotNames : TimesCreated(n) <= 1

(* ------------------------------------------------------------------ *)
(* Service templates: claims                                           *)
(* ------------------------------------------------------------------ *)
\* the dict given under a field of the overrides argument, {} if none is
OverrideOf(o, field) ==
    IF IsNone(o) \/ field \notin DOMAIN o THEN EmptyDict ELSE o[field]

\* d holds, for every key of either dict, the value of `given` where it
\* has the key and the value of `stored` elsewhere
OverrideWins(d, stored, given) ==
    /\ DOMAIN d = DOMAIN stored \cup DOMAIN given
    /\ \A k \in DOMAIN given : d[k] = given[k]
    /\ \A k \in DOMAIN stored \ DOMAIN given : d[k] = stored[k]

\* the last call of _deploy_service got the values of template n under
\* the overrides o
DeployedWith(n, o) ==
    LET call == tmpl_deployed'[Len(tmpl_deployed')] IN
    /\ Len(tmpl_deployed') = Len(tmpl_deployed) + 1
    /\ call.image = IF ~IsNone(o) /\ "image" \in DOMAIN o
                    THEN o.image ELSE templates[n].image
    /\ OverrideWins(call.ports, templates[n].ports, OverrideOf(o, "ports"))
    /\ OverrideWins(call.env_vars, templates[n].env_vars,
                    OverrideOf(o, "env_vars"))

RunStep == \E n \in TemplateNames, o \in OverrideArgs : RunFromTemplate(n, o)

\* a step of create_template, update_template or delete_template
StoreStep ==
    \/ \E n \in TemplateNames \cup {""}, a \in CreateArgs :
          CreateTemplate(n, a[1], a[2], a[3], a[4])
    \/ \E n \in TemplateNames, a \in UpdateArgs :
          UpdateTemplate(n, a[1], a[2], a[3], a[4])
    \/ \E n \in TemplateNames : DeleteTemplate(n)

\* the same names are stored after the step, each with the image, ports,
\* env_vars and health_check it had
StoreUnchanged ==
    /\ DOMAIN templates' = DOMAIN templates
    /\ \A n \in DOMAIN templates :
          /\ templates'[n].image = templates[n].image
          /\ templates'[n].ports = templates[n].ports
          /\ templates'[n].env_vars = templates[n].env_vars
          /\ templates'[n].health_check = templates[n].health_check

\* C24: run_from_template never changes the template store, with or
\* without overrides and whether or not the deployment succeeds; only
\* create_template, update_template and delete_template change it
C24_RunNeverChangesStore ==
    /\ [][RunStep => StoreUnchanged]_vars
    /\ [][templates' # templates => StoreStep]_vars

\* a template was deployed with values that differ from the stored ones,
\* once with success and the store still holds the template's own values
C24_Witness ==
    /\ tmpl_result.call = "run_from_template"
    /\ "container_id" \in DOMAIN tmpl_result
    /\ Len(tmpl_deployed) > 0
    /\ \E n \in DOMAIN templates :
          /\ tmpl_result.template_name = n
          /\ tmpl_deployed[Len(tmpl_deployed)].ports # templates[n].ports

\* the step raised the error `kind` and changed neither the store nor
\* the runtime
FailsWith(kind) ==
    /\ "raised" \in DOMAIN tmpl_result'
    /\ tmpl_result'.raised = kind
    /\ templates' = templates
    /\ runtime' = runtime
    /\ next_id' = next_id

\* run_from_template, get_template, update_template and delete_template
\* with an unknown name fail with the not-found error
UnknownNameFails ==
    \A n \in TemplateNames \ DOMAIN templates :
        /\ \A o \in OverrideArgs :
              RunFromTemplate(n, o) => FailsWith("not_found")
        /\ GetTemplate(n) => FailsWith("not_found")
        /\ \A a \in UpdateArgs :
              UpdateTemplate(n, a[1], a[2], a[3], a[4]) => FailsWith("not_found")
        /\ DeleteTemplate(n) => FailsWith("not_found")

\* C25 as stated: create_template with a name that already exists fails
\* with the already-exists error and leaves every template unchanged;
\* the other operations with an unknown name fail with the not-found
\* error and change neither the store nor the runtime
C25_ExistingNameAlwaysAlreadyExists ==
    [][/\ \A n \in DOMAIN templates, a \in CreateArgs :
             CreateTemplate(n, a[1], a[2], a[3], a[4])
                 => FailsWith("already_exists")
       /\ UnknownNameFails]_vars

\* C25, amended: create_template with a name that already exists and
\* with an image and ports given fails with the already-exists error;
\* with an image or ports missing it fails with the missing-field error;
\* both leave every template unchanged. The other operations with an
\* unknown name fail with the not-found error and change neither the
\* store nor the runtime
C25_ErrorsLeaveStoreUnchanged ==
    [][/\ \A n \in DOMAIN templates, a \in CreateArgs :
             CreateTemplate(n, a[1], a[2], a[3], a[4])
                 => IF MissingField(n, a[1], a[2]) = "none"
                    THEN FailsWith("already_exists")
                    ELSE FailsWith(MissingField(n, a[1], a[2]))
       /\ UnknownNameFails]_vars

\* create_template was called with the name of a stored template
C25_Witness ==
    /\ tmpl_result.call = "create_template"
    /\ "raised" \in DOMAIN tmpl_result
    /\ tmpl_result.raised = "already_exists"
    /\ templates # <<>>

(* ------------------------------------------------------------------ *)
(* Health supervisor: claims                                           *)
(* ------------------------------------------------------------------ *)
ActiveLoops(c) == {t \in ThreadIds : threads[t].cid = c /\ Active(t)}

\* C10: under any interleaving of add_health_check, enable_auto_restart,
\* disable_auto_restart, remove_health_check and loop wake-ups, at most
\* one supervision loop is active for any container id, and
\* enable_auto_restart for a container that has a health check completes
\* successfully, also when the container has or had a loop
C10_OneActiveLoopAndEnableSucceeds ==
    /\ \A c \in HealthIds : Cardinality(ActiveLoops(c)) <= 1
    /\ enable_result \in {None, "monitoring_started", "no_health_check"}

\* the first half of C10 alone: never two active loops for one container
C10_AtMostOneActiveLoop ==
    \A c \in HealthIds : Cardinality(ActiveLoops(c)) <= 1

\* C11: once disable_auto_restart(c) has returned, the loop that was
\* registered for c exits at its next wake-up from sleep: after that
\* wake-up it is about to make its while test or has left the function;
\* it is never again inside the loop body or asleep
C11_DisabledLoopExitsAtNextWakeUp ==
    \A t \in ThreadIds :
        (threads[t].cancelled # "no" /\ threads[t].woke)
            => threads[t].pc \in {"awake", "exited"}

\* the loop unregistered by remove_health_check is, after its next
\* wake-up, about to make its while test or out of the function
RemovedLoopExitsAtWakeUp ==
    \A t \in ThreadIds :
        (threads[t].cancelled = "remove" /\ threads[t].woke)
            => threads[t].pc \in {"awake", "exited"}

\* no restart was requested by a loop that remove_health_check had
\* unregistered
NoRestartAfterRemove ==
    \A i \in 1..Len(restart_log) : restart_log[i].cancelled # "remove"

\* C12: remove_health_check(c) leaves c in neither the health-check map
\* nor the monitored loops, and the loop that was registered for c
\* requests no further restart and is gone after its next wake-up, also
\* when a health check for c is added again before
C12_RemovedLoopEndsWithoutRestart ==
    /\ [](NoRestartAfterRemove /\ RemovedLoopExitsAtWakeUp)
    /\ [][\A c \in HealthIds :
            RemoveHealthCheck(c) =>
                /\ c \notin DOMAIN health_checks'
                /\ c \notin DOMAIN monitoring_threads']_vars

\* the restart requests that raised
FailedRestarts == {i \in 1..Len(restart_log) : restart_log[i].outcome # "ok"}

\* C13: when the restart requested by a supervision loop raises, that
\* loop has left its function for good: the thread is ended from then
\* on, an ended thread takes no further step (no probe, no status or
\* timestamp update) and no later restart request comes from it
C13_FailedRestartEndsTheLoop ==
    /\ [](\A i \in FailedRestarts : Ended(restart_log[i].thread))
    /\ [][\A t \in ThreadIds :
            Ended(t) =>
                /\ threads'[t] = threads[t]
                /\ \A i \in 1..Len(restart_log') :
                      i > Len(restart_log) => restart_log'[i].thread # t]_vars

\* a restart raised DockerException and a restart raised RuntimeError
\* (two different runs may reach them), the thread being out of the loop
\* while its container is still in both maps
C13_Witness ==
    \E i \in FailedRestarts :
        /\ restart_log[i].outcome = "DockerException"
        /\ threads[restart_log[i].thread].pc = "broke"
        /\ restart_log[i].cid \in DOMAIN health_checks
        /\ restart_log[i].cid \in DOMAIN monitoring_threads

\* thread u is at its restart request and the model's log of restart
\* requests is full
AtLoggedLimit(u) ==
    threads[u].pc = "restart" /\ Len(restart_log) >= MaxRestarts

\* a step of thread t leaves every other thread object, the entry of
\* every other container and the registered threads as they are
StepTouchesOwnLoopOnly(t) ==
    /\ \A u \in ThreadIds : u # t => threads'[u] = threads[u]
    /\ \A c \in DOMAIN health_checks :
          c # threads[t].cid =>
              c \in DOMAIN health_checks' /\ health_checks'[c] = health_checks[c]
    /\ monitoring_threads' = monitoring_threads

HealthyIteration == <<"probe_healthy", "status_healthy", "stamp">>

UnhealthyIteration ==
    <<"probe_unhealthy", "status_unhealthy", "stamp", "restart">>

IsPrefix(s, t) == Len(s) <= Len(t) /\ SubSeq(t, 1, Len(s)) = s

\* C15: every iteration of a supervision loop is probe, status update,
\* timestamp and, only when the probe was unhealthy, one restart request
\* made after the status was set to unhealthy and before the sleep; an
\* iteration whose probe was healthy sets the status healthy and sleeps
\* without a restart request; every restart request comes from a thread
\* at that point of an unhealthy iteration
C15_RestartOnlyWhenUnhealthy ==
    /\ [](\A t \in ThreadIds :
            LET it == threads[t].iter
                pc == threads[t].pc IN
            /\ IsPrefix(it, HealthyIteration) \/ IsPrefix(it, UnhealthyIteration)
            /\ pc = "restart" => it = SubSeq(UnhealthyIteration, 1, 3)
            /\ pc = "sleeping" => it \in {HealthyIteration, UnhealthyIteration}
            /\ pc \in {"broke", "crashed"} => it = UnhealthyIteration
            /\ (pc \in {"time", "stamp", "restart"}
                    /\ InMap(threads[t].cid, threads[t].health_info))
                  => health_checks[threads[t].cid].status
                        = StatusOf(threads[t].is_healthy)
            /\ pc = "restart" => ~threads[t].is_healthy)
    /\ [][restart_log' # restart_log =>
            \E t \in ThreadIds :
                /\ threads[t].pc = "restart"
                /\ threads'[t].iter = UnhealthyIteration
                /\ restart_log' =
                      Append(restart_log, restart_log'[Len(restart_log')])
                /\ restart_log'[Len(restart_log')].thread = t]_vars

\* one loop sleeps after an unhealthy iteration whose restart was done
\* while another sleeps after a healthy iteration, its entry healthy
C15_Witness ==
    \E t, u \in ThreadIds :
        /\ threads[t].pc = "sleeping"
        /\ threads[t].iter = UnhealthyIteration
        /\ \E i \in 1..Len(restart_log) :
              restart_log[i].thread = t /\ restart_log[i].outcome = "ok"
        /\ threads[u].pc = "sleeping"
        /\ threads[u].iter = HealthyIteration
        /\ threads[u].cid \in DOMAIN health_checks
        /\ health_checks[threads[u].cid].status = "healthy"

\* every get_service_health call that returned for an endpoint that has
\* never answered returned status unhealthy
UnreachableIsUnhealthy ==
    (check_result.endpoint # NoEndpoint
        /\ check_result.endpoint \notin been_reachable)
            => check_result.status = "unhealthy"

\* no step lowers the last_check stored in a health-check dict that
\* stays in the map
LastCheckNeverDecreases ==
    \A c \in DOMAIN health_checks :
        (c \in DOMAIN health_checks' /\ health_checks'[c].id = health_checks[c].id)
            => health_checks'[c].last_check >= health_checks[c].last_check

\* C16: get_service_health on a container whose endpoint stays
\* unreachable returns unhealthy every time, and the last_check stored in
\* the container's entry never decreases, whatever the interleaving of
\* the calls with the container's supervision loop
C16_UnhealthyAndLastCheckMonotonic ==
    /\ []UnreachableIsUnhealthy
    /\ [][LastCheckNeverDecreases]_vars

\* a loop or a get_service_health call has stored one of status and
\* last_check in the entry of c and not yet the other
Updating(c) ==
    \/ \E t \in ThreadIds :
          /\ threads[t].cid = c
          /\ threads[t].pc \in {"time", "stamp"}
          /\ InMap(c, threads[t].health_info)
    \/ caller_cid = c /\ caller_pc = "check_status"

\* no loop found the entry deleted between its while test and its read
NoAccessAfterDelete == \A t \in ThreadIds : threads[t].pc # "keyerror"

\* outside an update, the status and the last_check of an entry were
\* stored by the same prober for the same probe
StatusAndStampFromOneProbe ==
    \A c \in DOMAIN health_checks :
        ~Updating(c) => health_checks[c].status_by = health_checks[c].stamp_by

\* C17: the accesses of get_service_health, add_health_check,
\* remove_health_check and the supervision loops to an entry are atomic:
\* no loop reads the entry after remove_health_check deleted it between
\* the loop's existence test and its access, and no entry is left with a
\* status and a last_check that come from two different probes
C17_EntryAccessesAreAtomic ==
    NoAccessAfterDelete /\ StatusAndStampFromOneProbe

\* list_health_checks reports the container with auto_restart true
ReportedAutoRestart(c) ==
    c \in DOMAIN ListHealthChecks /\ ListHealthChecks[c].auto_restart

\* a step of add_health_check for container c
AddStep(c) == \E e \in Endpoints : AddHealthCheck(c, e, DefaultInterval)

\* the step stored an entry with status unknown and no last-check time,
\* and created no loop, made no probe and requested no restart
StoresUnknownOnly(c) ==
    /\ health_checks'[c].status = "unknown"
    /\ health_checks'[c].last_check = NoTime
    /\ threads' = threads
    /\ monitoring_threads' = monitoring_threads
    /\ check' = check
    /\ restart_log' = restart_log
    /\ runtime' = runtime

\* C26: add_health_check stores a HealthCheck with status unknown and no
\* last-check time and starts no monitoring: no supervision loop, no
\* probe, no restart; a container is reported with auto_restart true
\* only once enable_auto_restart has registered a loop for it
C26_AddStartsNoMonitoring ==
    /\ [][\A c \in HealthIds : AddStep(c) => StoresUnknownOnly(c)]_vars
    /\ [][\A c \in HealthIds :
             (ReportedAutoRestart(c)' /\ ~ReportedAutoRestart(c))
                 => (EnableRegister /\ caller_cid = c)]_vars
    /\ [](\A c \in HealthIds :
             ReportedAutoRestart(c) => \E t \in ThreadIds : threads[t].cid = c)

\* h1 is supervised and was found unhealthy by its loop; h2 was added
\* and is reported unknown, without auto-restart
C26_Witness ==
    /\ ReportedAutoRestart("h1")
    /\ health_checks["h1"].status = "unhealthy"
    /\ "h2" \in DOMAIN health_checks
    /\ health_checks["h2"].status = "unknown"
    /\ health_checks["h2"].last_check = NoTime
    /\ ~ReportedAutoRestart("h2")

(* ------------------------------------------------------------------ *)
(* Declared dependencies: claims                                       *)
(* ------------------------------------------------------------------ *)
\* the define_dependency calls made for service n, in order
DefinedFor(n) == SelectSeq(defined_log, LAMBDA c : c.service = n)

\* the step stored the definition given for n and left the definitions
\* of the other names as they were
ReplacesOnly(n, d, w) ==
    /\ DOMAIN dependencies' = DOMAIN dependencies \cup {n}
    /\ dependencies'[n].depends_on = d
    /\ dependencies'[n].wait_condition = w
    /\ \A m \in DOMAIN dependencies \ {n} : dependencies'[m] = dependencies[m]

\* the step reported the dependency and condition of the latest
\* define_dependency call for n
ReportsLatest(n) ==
    LET calls == DefinedFor(n) IN
    /\ "depends_on" \in DOMAIN dep_result'
    /\ dep_result'.service = n
    /\ dep_result'.depends_on = calls[Len(calls)].depends_on
    /\ dep_result'.condition = calls[Len(calls)].wait_condition

\* C30: the dependency map holds one definition per dependent service
\* name: define_dependency for a name already defined replaces its
\* depended-on service and condition and leaves the other names alone,
\* and get_dependency_status reports the latest definition of the name
C30_LatestDefinitionWins ==
    /\ [][\A n \in GroupNames, d \in DependsOnNames, w \in DeclaredConds :
             DefineDependency(n, d, w) => ReplacesOnly(n, d, w)]_vars
    /\ [][\A n \in GroupNames :
             (GetDependencyStatus(n) /\ DefinedFor(n) # <<>>)
                 => ReportsLatest(n)]_vars

\* api was defined twice with different dependencies and conditions, db
\* once, and the status of api reports the second definition
C30_Witness ==
    /\ Len(DefinedFor("api")) = 2
    /\ DefinedFor("api")[1].depends_on # DefinedFor("api")[2].depends_on
    /\ DefinedFor("api")[1].wait_condition # DefinedFor("api")[2].wait_condition
    /\ Len(DefinedFor("db")) = 1
    /\ dep_result.call = "get_dependency_status"
    /\ "depends_on" \in DOMAIN dep_result
    /\ dep_result.service = "api"
    /\ dep_result.depends_on = DefinedFor("api")[2].depends_on

\* a readiness condition is attached to the definition: inline, or by a
\* dependency declared for its name
Attached(def) ==
    def.wait_condition # NoCond \/ def.name \in DOMAIN dependencies

\* C27: during deploy_group a service that was just created enters the
\* probing step exactly when a readiness condition is attached to it,
\* inline or through a dependency declared with define_dependency
C27_ProbedIffConditionAttached ==
    [][(DeployCreate /\ current_id' # current_id)
          => (deploy_pc' = "probe" <=> Attached(CurrentDef))]_vars

\* C28: the service definitions passed to deploy_group are not modified
\* by the call: no step of deploy_group changes a definition, so each
\* has the value the caller supplied when the call returns or fails
C28_DefinitionsNotModified ==
    [][definitions' = definitions]_vars

(* ------------------------------------------------------------------ *)
(* Dependency resolver with list fields: claims                        *)
(* ------------------------------------------------------------------ *)
\* the names ordered before position i
OrderedBefore(i) == {sorted_services[j].name : j \in 1..(i - 1)}

\* every definition was placed after all the names its field lists
ListedAfterAllDependencies ==
    \A i \in 1..Len(sorted_services) :
        \A k \in 1..Len(sorted_services[i].depends_on.items) :
            sorted_services[i].depends_on.items[k] \in OrderedBefore(i)

\* C29: the resolver of the deploy-group entry point accepts a
\* dependency field holding zero, one or many names: a definition is
\* ordered only after all the names it lists, a definition with an empty
\* or absent field is always eligible, and ordering such a batch ends
\* without an error other than the reported cycle or missing dependency
C29_ListFieldsOrderedWithoutError ==
    /\ ListedAfterAllDependencies
    /\ sort_pc # "type_error"

(* ------------------------------------------------------------------ *)
(* Prober with malformed conditions: claims                            *)
(* ------------------------------------------------------------------ *)
\* C31: wait_for_condition given a condition that lacks a required field
\* signals an error before the polling loop starts: it makes no probe
\* attempt, sleeps no inter-attempt delay and returns no boolean
C31_MalformedFailsBeforeLoop ==
    /\ wait_pc \in {"test", "raised"}
    /\ attempt_log = <<>>

(* ------------------------------------------------------------------ *)
(* Blocking and non-blocking wait: claims                              *)
(* ------------------------------------------------------------------ *)
Finished(t) == tasks[t].pc \in {"returned", "raised"}

\* C32: for the same condition, timeout and per-attempt probe outcomes,
\* wait_for_condition and wait_for_condition_async make the same number
\* of attempts and return the same boolean, and while the non-blocking
\* wait is suspended in its delay the other wait can take its next step
C32_BlockingAndAsyncAgree ==
    /\ (Finished(1) /\ Finished(2))
          => /\ tasks[1].pc = "returned"
             /\ tasks[2].pc = "returned"
             /\ tasks[1].attempts = tasks[2].attempts
             /\ tasks[1].result = tasks[2].result
    /\ (tasks[2].pc = "sleeping" /\ ~Finished(1))
          => ENABLED (TaskTest(1) \/ TaskAttempt(1) \/ TaskSleep(1))

(* ------------------------------------------------------------------ *)
(* Dependency resolver: order among ties and termination               *)
(* ------------------------------------------------------------------ *)
\* the names emitted so far
Emitted == {sorted_services[i].name : i \in 1..Len(sorted_services)}

\* the definition has no dependency, or its dependency was emitted
EligibleNow(def) ==
    def.depends_on \in {None, ""} \/ def.depends_on \in Emitted

\* the position of the definition named n in the input
InputPos(n) == CHOOSE i \in 1..Len(services) : services[i].name = n

\* the step emitted a definition, and no definition that stands earlier
\* in the input and was not yet emitted was eligible
EmitsEarliestEligible ==
    LET d == sorted_services'[Len(sorted_services')] IN
    /\ Len(sorted_services') = Len(sorted_services) + 1
    /\ d.name \notin Emitted
    /\ EligibleNow(d)
    /\ \A j \in 1..(InputPos(d.name) - 1) :
          services[j].name \in Emitted \/ ~EligibleNow(services[j])

\* C33: the resolver is deterministic and preserves the input order among
\* ties: each step emits the eligible definition that stands earliest in
\* the input, and the list returned is the one the input determines
C33_EarliestEligibleFirst ==
    /\ [][sorted_services' # sorted_services => EmitsEarliestEligible]_vars
    /\ [](sort_pc = "returned"
            => sorted_services = sort_services_by_dependencies(services).value)

\* the first definition depends on the third; the second and third were
\* eligible together and came out in their input order, the first last
C33_Witness ==
    /\ sort_pc = "returned"
    /\ Len(services) = 3
    /\ services[1].depends_on = services[3].name
    /\ services[2].depends_on = None
    /\ services[3].depends_on = None
    /\ sorted_services = <<services[2], services[3], services[1]>>

\* the names of a list of definitions
NameSet(defs) == {defs[i].name : i \in 1..Len(defs)}

\* every definition of the input is either emitted or remaining, once
Conserved ==
    /\ Len(sorted_services) + Len(remaining) = Len(services)
    /\ NameSet(sorted_services) \cup NameSet(remaining) = NameSet(services)

\* the pass moved exactly one definition from remaining to the output
MovedOne ==
    /\ sort_pc' = "running"
    /\ Len(sorted_services') = Len(sorted_services) + 1
    /\ Len(remaining') = Len(remaining) - 1
    /\ sorted_services'[Len(sorted_services')].name \in NameSet(remaining)
    /\ sorted_services'[Len(sorted_services')].name \notin NameSet(remaining')

\* the pass raised the circular or missing dependency error
RaisedDeadEnd ==
    /\ sort_pc' = "raised"
    /\ UNCHANGED <<sorted_services, remaining>>

\* C40: sort_services_by_dependencies terminates on every finite batch:
\* each pass of its outer loop either moves exactly one definition from
\* the remaining list to the output or raises the circular or missing
\* dependency error, it makes at most n passes for n definitions, never
\* drops or duplicates a definition, and always returns or raises
C40_SortTerminatesWithinNPasses ==
    /\ [][SortPass => (MovedOne \/ RaisedDeadEnd)]_vars
    /\ [](sort_passes <= Len(services))
    /\ []Conserved
    /\ <>(sort_pc \in {"returned", "raised"})

\* one definition was moved, then the second pass found no deployable
\* definition among the two left and raised
C40_Witness ==
    /\ sort_pc = "raised"
    /\ sort_passes = 2
    /\ Len(sorted_services) = 1
    /\ Len(remaining) = 2

(* ------------------------------------------------------------------ *)
(* Failures of image resolution and container creation                 *)
(* ------------------------------------------------------------------ *)
\* the call ended with an exception before the current service's
\* container was created
FailedBeforeCreate ==
    /\ deploy_pc = "raised"
    /\ deploy_error # "CycleOrMissingDependency"
    /\ ~HasEntry(gateway_log, "run", CurrentDef.name)

\* the containers the call added to the runtime
CreatedByCall == SubSeq(runtime, Len(runtime_before) + 1, Len(runtime))

\* the call created one container for each service before the current
\* one, all still running, and nothing else
OnlyEarlierServicesRunning ==
    /\ SubSeq(runtime, 1, Len(runtime_before)) = runtime_before
    /\ Len(CreatedByCall) = deploy_idx - 1
    /\ \A j \in 1..(deploy_idx - 1) :
          /\ CreatedByCall[j].name = sorted_definitions[j].name
          /\ CreatedByCall[j].status = "running"
          /\ deployed_containers[sorted_definitions[j].name] =
                CreatedByCall[j].id

\* the step resolved the image, or created the current container
StepSucceeded ==
    \/ deploy_pc = "resolve" /\ deploy_pc' = "create"
    \/ /\ deploy_pc = "create"
       /\ gateway_log' = Append(gateway_log, LogEntry("run", CurrentDef.name))

\* a step of resolution or creation that does not succeed raises the
\* runtime's exception and creates nothing
FailurePropagates ==
    (deploy_pc \in {"resolve", "create"} /\ ~StepSucceeded) =>
        /\ deploy_pc' = "raised"
        /\ deploy_error' \in {"APIError", "AttributeError"}
        /\ runtime' = runtime
        /\ deployed_containers' = deployed_containers
        /\ deploy_idx' = deploy_idx

\* a failed build is followed by the exception of the call, before the
\* container of that service is created
BuildFailurePropagates ==
    \A n \in GroupNames :
        HasEntry(gateway_log, "build_failed", n) =>
            /\ deploy_pc = "raised"
            /\ CurrentDef.name = n
            /\ ~HasEntry(gateway_log, "run", n)

\* a failed pull or a failed creation of the k-th container is propagated,
\* creates nothing, and leaves the containers of services 1..k-1 running
PullOrCreateFailurePropagates ==
    /\ [][FailurePropagates]_vars
    /\ [](FailedBeforeCreate => OnlyEarlierServicesRunning)

C35_NoRestartAfterDisable ==
    \A i \in 1..Len(restart_log) : restart_log[i].cancelled # "disable"

\* the fields of an entry the loop never writes
SameButStatusAndStamp(old, new) ==
    \A k \in DOMAIN old :
        k \notin {"status", "last_check", "status_by", "stamp_by"} =>
            new[k] = old[k]

\* a step of thread t, whose container is c: no entry is added or
\* removed, every other container's entry is what it was, c's entry keeps
\* its endpoint and interval, what the thread holds was read from c's
\* entry, and a restart it requests is a restart of c
LoopFrame(t) ==
    LET c == threads[t].cid IN
    /\ DOMAIN health_checks' = DOMAIN health_checks
    /\ monitoring_threads' = monitoring_threads
    /\ \A d \in DOMAIN health_checks :
          IF d # c THEN health_checks'[d] = health_checks[d]
          ELSE SameButStatusAndStamp(health_checks[d], health_checks'[d])
    /\ threads'[t].cid = c
    /\ threads'[t].health_info # threads[t].health_info =>
          \/ threads'[t].health_info = 0
          \/ c \in DOMAIN health_checks
             /\ threads'[t].health_info = health_checks[c].id
             /\ threads'[t].endpoint = health_checks[c].endpoint
    /\ \A i \in 1..Len(restart_log') :
          i > Len(restart_log) =>
              restart_log'[i].thread = t /\ restart_log'[i].cid = c

\* C36: a supervision loop for container c reads and writes only c's
\* entry and requests restarts only for c: it never changes the status,
\* last-check time, endpoint or interval of another container's entry,
\* never adds or removes map entries, never restarts another container
C36_LoopTouchesOnlyOwnEntry ==
    [][\A t \in ThreadIds : LoopStep(t) => LoopFrame(t)]_vars

\* the loop of h1 has probed, written unhealthy and its timestamp and
\* requested a restart of h1, while the entry of h2 is still unprobed and
\* the loop of h2 is inside its loop body
C36_Witness ==
    /\ DOMAIN health_checks = {"h1", "h2"}
    /\ health_checks["h1"].status = "unhealthy"
    /\ health_checks["h1"].status_by = 1
    /\ health_checks["h2"].status = "unknown"
    /\ health_checks["h2"].last_check = NoTime
    /\ restart_log # <<>>
    /\ restart_log[1].cid = "h1"
    /\ Active(2)

\* the first while test of a started loop finds its container registered
\* and enters the loop body
FirstTestPasses(t) ==
    (LoopTest(t) /\ threads[t].pc = "started") => threads'[t].pc = "reading"

\* enable_auto_restart has returned its monitoring-started result for the
\* container the newest thread was started for
StartedFor(t) ==
    /\ caller_pc = "idle"
    /\ enable_result = "monitoring_started"
    /\ t = Len(threads)

\* the thread has probed at least once
HasProbed(t) ==
    \/ threads[t].pc \in {"status", "time", "stamp", "restart", "sleeping",
                          "awake", "broke", "crashed"}
    \/ threads[t].iter # <<>>

\* C37: whenever enable_auto_restart(c) returns its monitoring-started
\* result a supervision loop for c is active and performs at least one
\* probe: under every interleaving the loop's first while test sees c
\* registered, it cannot find c unregistered and exit before the caller
\* has recorded the thread
C37_StartedLoopIsRegisteredAtFirstTest ==
    /\ [][\A t \in ThreadIds : FirstTestPasses(t)]_vars
    /\ [](\A t \in ThreadIds :
            (StartedFor(t) /\ Ended(t)) => HasProbed(t))

\* a thread started for container c has not left _monitor_and_restart;
\* a thread that disable or remove has unregistered and that has not yet
\* come to its while test is not counted
LoopRunning(c) == \E t \in ThreadIds : threads[t].cid = c /\ ~Ended(t)

LoopRunningRegistered(c) ==
    \E t \in ThreadIds :
        threads[t].cid = c /\ ~Ended(t) /\ threads[t].cancelled = "no"

\* C38: in every reachable state list_health_checks reports auto_restart
\* true for a container exactly when a supervision loop for it is still
\* running; after a loop has stopped because its restart call failed the
\* container is no longer reported as auto-restarting
C38_ReportedIffLoopRunning ==
    \A c \in DOMAIN ListHealthChecks :
        /\ ListHealthChecks[c].auto_restart => LoopRunning(c)
        /\ LoopRunningRegistered(c) => ListHealthChecks[c].auto_restart

\* the status values an entry may hold
StatusValues == {"unknown", "healthy", "unhealthy"}

\* last_check is unset exactly when the status is unknown
EntryConsistent(h) ==
    /\ h.status \in StatusValues
    /\ h.last_check = NoTime <=> h.status = "unknown"

\* the status of a probed entry is unknown again only in a new dict
UnknownOnlyByAdd ==
    \A c \in DOMAIN health_checks :
        (/\ health_checks[c].status # "unknown"
         /\ c \in DOMAIN health_checks'
         /\ health_checks'[c].status = "unknown")
            => /\ health_checks'[c].id # health_checks[c].id
               /\ health_checks'[c].status_by = ByAdd

\* nobody is between its two stores to the dict with identity n
NoUpdateInProgress(n) ==
    /\ \A t \in ThreadIds :
          threads[t].pc \in {"time", "stamp"} => threads[t].health_info # n
    /\ caller_pc = "check_status" => check.health_info # n

\* every entry is consistent while no update of it is in progress
ConsistentWhenQuiet ==
    \A c \in DOMAIN health_checks :
        NoUpdateInProgress(health_checks[c].id) =>
            EntryConsistent(health_checks[c])

\* C39: in every reachable state each entry has a status in {unknown,
\* healthy, unhealthy} and its last_check is unset if and only if its
\* status is unknown; once an entry has been probed its status returns to
\* unknown only through a new add_health_check for that container
C39_LastCheckUnsetIffUnknown ==
    /\ [](\A c \in DOMAIN health_checks : EntryConsistent(health_checks[c]))
    /\ [][UnknownOnlyByAdd]_vars

====
